---------------------------- MODULE Spec2Model ----------------------------
(***************************************************************************)
(* A model of the Dataman S4 control clients of saagit/dms4util:           *)
(*   src/dataman_s4_load_ram.py  (pyserial client, CommunicationError)     *)
(*   src/dms4util.py             (pexpect client, anchored _expect)        *)
(* Bytes are integers 0..255 (their ASCII codes); byte strings are         *)
(* sequences of bytes.  The serial line is two queues: devOut (bytes the   *)
(* device has produced that have not yet arrived) and rx (bytes that have  *)
(* arrived and are waiting to be read by the client).                      *)
(***************************************************************************)
EXTENDS Integers, Sequences, FiniteSets, TLC

(***************************************************************************)
(* Wire literals, copied from the source.                                  *)
(***************************************************************************)
\* b'\x1b'  (DatamanS4.ESCAPE)
ESCAPE == <<27>>
\* b'\r'
CR == <<13>>
\* b'>'  (the idle prompt, compared with a whole line in __init__)
PROMPT == <<62>>
\* b'PR'
CMD_PR == <<80, 82>>
\* b'PR\r>PRETEST '
PRETEST_HEAD == <<80, 82, 13, 62, 80, 82, 69, 84, 69, 83, 84, 32>>
\* b'\r\n'
CRLF == <<13, 10>>
\* b'\r\nEsc\r\n>'
ESC_REPLY == <<13, 10, 69, 115, 99, 13, 10, 62>>
\* b'FF'
CMD_FF == <<70, 70>>
\* b'FF\r>FILE FORMAT\r\n'
FF_REPLY == <<70, 70, 13, 62, 70, 73, 76, 69, 32, 70, 79, 82, 77, 65, 84, 13, 10>>
\* b'\rASCII   '
FMT_ASCII == <<13, 65, 83, 67, 73, 73, 32, 32, 32>>
\* b'\rINTEL   '
FMT_INTEL == <<13, 73, 78, 84, 69, 76, 32, 32, 32>>
\* b'\rMOTOROLA'
FMT_MOTOROLA == <<13, 77, 79, 84, 79, 82, 79, 76, 65>>
\* b'\rTEK HEX '
FMT_TEKHEX == <<13, 84, 69, 75, 32, 72, 69, 88, 32>>
\* b'\rBINARY  '
FMT_BINARY == <<13, 66, 73, 78, 65, 82, 89, 32, 32>>
\* b'\r\n>'
COMMIT_REPLY == <<13, 10, 62>>
\* b' '
SPACE == <<32>>
\* b'RE'
CMD_RE == <<82, 69>>
\* b'RE\r>RECEIVE BINARY  \r\n'
RE_REPLY == <<82, 69, 13, 62, 82, 69, 67, 69, 73, 86, 69, 32, 66, 73, 78, 65, 82, 89, 32, 32, 13, 10>>
\* b'CH'
CMD_CH == <<67, 72>>
\* b'CH\r>CHECKSUM RAM\r\n'
CH_REPLY == <<67, 72, 13, 62, 67, 72, 69, 67, 75, 83, 85, 77, 32, 82, 65, 77, 13, 10>>
\* b'\r\r\n'
CH_ACK == <<13, 13, 10>>
\* b'SUM = '
SUM_HEAD == <<83, 85, 77, 32, 61, 32>>
\* b'\r\n>'
SUM_TAIL == <<13, 10, 62>>
\* b',\b \b\b\b\b\b\b\b\b\b\b\b\b'  (the tail of the range placeholder)
PLACEHOLDER_TAIL == <<44, 8, 32, 8, 8, 8, 8, 8, 8, 8, 8, 8, 8, 8, 8>>
\* b'\b' * 17  (the tail of the PRETEST parameter line)
BS17 == <<8, 8, 8, 8, 8, 8, 8, 8, 8, 8, 8, 8, 8, 8, 8, 8, 8>>

(***************************************************************************)
(* Sequence helpers.                                                       *)
(***************************************************************************)
Min(a, b) == IF a <= b THEN a ELSE b

Take(s, n) == SubSeq(s, 1, Min(n, Len(s)))

Drop(s, n) == SubSeq(s, Min(n, Len(s)) + 1, Len(s))

StartsWith(s, p) == Len(s) >= Len(p) /\ SubSeq(s, 1, Len(p)) = p

Rep(b, k) == [i \in 1..k |-> b]

\* The position of the first byte b of s, or 0.
FirstIndex(s, b) ==
  IF \E i \in 1..Len(s) : s[i] = b
  THEN CHOOSE i \in 1..Len(s) : s[i] = b /\ \A j \in 1..(i-1) : s[j] # b
  ELSE 0

(***************************************************************************)
(* Python's integer formatting and parsing.                                *)
(***************************************************************************)
\* One of '0'..'9', 'A'..'F' (the class [0-9A-F] of the regular expressions).
IsHexDigit(b) == b \in (48..57) \cup (65..70)

IsHexRun(s) == \A i \in 1..Len(s) : IsHexDigit(s[i])

HexChar(d) == IF d < 10 THEN 48 + d ELSE 55 + d

HexVal(b) == IF b <= 57 THEN b - 48 ELSE b - 55

RECURSIVE HexDigits(_)
\* The hexadecimal digits of n >= 0, most significant first, no padding.
HexDigits(n) ==
  IF n < 16 THEN <<HexChar(n)>>
  ELSE Append(HexDigits(n \div 16), HexChar(n % 16))

\* f'{n:0<w>X}': zero padded to a MINIMUM width w; a negative n is printed
\* as '-' followed by the digits padded to w - 1; a wide n is not cut.
FormatHex(n, w) ==
  LET mag == IF n < 0 THEN 0 - n ELSE n
      dig == HexDigits(mag)
      sgn == IF n < 0 THEN <<45>> ELSE <<>>
      pad == w - Len(sgn) - Len(dig)
  IN  sgn \o Rep(48, IF pad > 0 THEN pad ELSE 0) \o dig

RECURSIVE ParseHex(_)
\* int(s, 16) of a run of hexadecimal digits.
ParseHex(s) ==
  IF Len(s) = 0 THEN 0
  ELSE 16 * ParseHex(SubSeq(s, 1, Len(s) - 1)) + HexVal(s[Len(s)])

(***************************************************************************)
(* Unsigned 32-bit values are kept as <<high 16 bits, low 16 bits>>, so    *)
(* that wrapping at 2^32 is computed in the integers TLC has.              *)
(***************************************************************************)
\* (v + w) & 0xFFFFFFFF
Add32(v, w) ==
  LET lo == v[2] + w[2]
  IN  <<(v[1] + w[1] + (lo \div 65536)) % 65536, lo % 65536>>

RECURSIVE Checksum32(_)
\* sum(data) & 0xFFFFFFFF.  Addition modulo 2^32 is associative: the bytes
\* are summed by halves, which keeps the recursion shallow for long data.
Checksum32(s) ==
  IF Len(s) = 0 THEN <<0, 0>>
  ELSE IF Len(s) = 1 THEN <<0, s[1]>>
  ELSE LET h == Len(s) \div 2
       IN  Add32(Checksum32(SubSeq(s, 1, h)), Checksum32(SubSeq(s, h + 1, Len(s))))

\* f'{v:08X}' of a 32-bit value
FormatHex32(v) == FormatHex(v[1], 4) \o FormatHex(v[2], 4)

\* int(s, 16) of eight hexadecimal digits
ParseHex32(s) == <<ParseHex(SubSeq(s, 1, 4)), ParseHex(SubSeq(s, 5, 8))>>

\* bytes.decode('ascii') succeeds
IsAscii(s) == \A i \in 1..Len(s) : s[i] < 128


(***************************************************************************)
(* pyserial's reads, as the number of bytes each takes from the bytes that *)
(* have arrived (buf) before its timeout expires.                          *)
(***************************************************************************)
\* Serial.read(size): up to size bytes; fewer (or none) on timeout.
ReadCount(buf, size) == Min(size, Len(buf))

\* Serial.read_until(expected, size) for a one-byte terminator: through the
\* first terminator, or size bytes (size = 0 stands for None: no limit), or
\* whatever arrived before the timeout.
ReadUntilCount(buf, term, size) ==
  LET win == IF size = 0 THEN buf ELSE Take(buf, size)
      i   == FirstIndex(win, term)
  IN  IF i > 0 THEN i ELSE Len(win)

\* Serial.readline() is read_until(b'\n', None).
ReadlineCount(buf) == ReadUntilCount(buf, 10, 0)

(***************************************************************************)
(* The regular expressions of dataman_s4_load_ram.py, as re.fullmatch      *)
(* applies them.                                                           *)
(***************************************************************************)
\* re.fullmatch(b'PR\r>PRETEST ([^\r]*)\r\n', response)
MatchPretest(r) ==
  /\ Len(r) >= Len(PRETEST_HEAD) + 2
  /\ StartsWith(r, PRETEST_HEAD)
  /\ SubSeq(r, Len(r) - 1, Len(r)) = CRLF
  /\ \A i \in (Len(PRETEST_HEAD) + 1)..(Len(r) - 2) : r[i] # 13

\* device_match.group(1)
PretestDevice(r) == SubSeq(r, Len(PRETEST_HEAD) + 1, Len(r) - 2)

\* len(b'\r 00000-7FFFF=00000' b'\b' * 17)
PretestParmsLen == 36

\* re.fullmatch(b'\r ([0-9A-F]{5})-([0-9A-F]{5})([=#])[0-9A-F]{5}\b{17}', r)
MatchParms(r) ==
  /\ Len(r) = PretestParmsLen
  /\ r[1] = 13 /\ r[2] = 32
  /\ IsHexRun(SubSeq(r, 3, 7))
  /\ r[8] = 45
  /\ IsHexRun(SubSeq(r, 9, 13))
  /\ r[14] \in {61, 35}
  /\ IsHexRun(SubSeq(r, 15, 19))
  /\ SubSeq(r, 20, 36) = BS17

\* parms_match.group(1), group(2), group(3)
ParmsStart(r) == SubSeq(r, 3, 7)

ParmsEnd(r) == SubSeq(r, 9, 13)

ParmsMarker(r) == r[14]

\* len(b'00000,7FFFF,\b ' b'\b' * 12)
PlaceholderLen == 26

\* re.fullmatch(b'([0-9A-F]{5}),([0-9A-F]{5}),\b \b{12}', response)
MatchPlaceholder(r) ==
  /\ Len(r) = PlaceholderLen
  /\ IsHexRun(SubSeq(r, 1, 5))
  /\ r[6] = 44
  /\ IsHexRun(SubSeq(r, 7, 11))
  /\ SubSeq(r, 12, 26) = PLACEHOLDER_TAIL

\* re.fullmatch(b'SUM = ([0-9A-F]{8})\r\n>', response)
MatchSum(r) ==
  /\ Len(r) = Len(SUM_HEAD) + 8 + Len(SUM_TAIL)
  /\ StartsWith(r, SUM_HEAD)
  /\ IsHexRun(SubSeq(r, 7, 14))
  /\ SubSeq(r, 15, 17) = SUM_TAIL

\* checksum_match.group(1)
SumDigits(r) == SubSeq(r, 7, 14)

(***************************************************************************)
(* class FileFormat(StrEnum): the values are what the S4 echoes back.      *)
(***************************************************************************)
FileFormat == <<FMT_ASCII, FMT_INTEL, FMT_MOTOROLA, FMT_TEKHEX, FMT_BINARY>>

\* all_file_formats = {bytes(f.value, encoding='ascii') for f in FileFormat}
AllFileFormats == {FileFormat[i] : i \in 1..Len(FileFormat)}

\* A request that types the comma the device's cursor skips by itself.
RangeRequestWithComma(s, e) == FormatHex(s, 5) \o <<44>> \o FormatHex(e, 5)

\* f'{start:05X}{end:05X}'.encode('ascii')
RangeRequest(s, e) == FormatHex(s, 5) \o FormatHex(e, 5)

\* An expected echo without the backspace that ends it.
RangeEchoWithoutBackspace(s, e) == FormatHex(s, 5) \o <<44>> \o FormatHex(e, 5)

\* f'{start:05X},{end:05X}\b'.encode('ascii')
RangeEcho(s, e) == FormatHex(s, 5) \o <<44>> \o FormatHex(e, 5) \o <<8>>


(***************************************************************************)
(* dms4util.py: the strings it sends and the patterns it expects.  A       *)
(* pattern is a sequence of elements: a byte stands for itself, HEXD for   *)
(* [0-9A-F], NOTCR for [^\r]+ (only as the last element).                  *)
(***************************************************************************)
\* 'as'  (advanced_setup)
CMD_AS == <<97, 115>>
\* 're'  (data_to_s4)
CMD_RE_LC == <<114, 101>>
\* 'ch'  (checksum_mem)
CMD_CH_LC == <<99, 104>>
\* 'em'  (emulate)
CMD_EM == <<101, 109>>
\* 'AS\r> ADVANCED SETUP'
AS_REPLY == <<65, 83, 13, 62, 32, 65, 68, 86, 65, 78, 67, 69, 68, 32, 83, 69, 84, 85, 80>>
\* 'RE\r>RECEIVE BINARY  '
RE_HEAD == <<82, 69, 13, 62, 82, 69, 67, 69, 73, 86, 69, 32, 66, 73, 78, 65, 82, 89, 32, 32>>
\* 'CH\r>CHECKSUM RAM'
CH_HEAD == <<67, 72, 13, 62, 67, 72, 69, 67, 75, 83, 85, 77, 32, 82, 65, 77>>
\* 'EM\r>EMULATE '
EM_HEAD == <<69, 77, 13, 62, 69, 77, 85, 76, 65, 84, 69, 32>>

\* The names advanced_setup passes to _set_named_byte, as f'{name:15}'.
NamedBytes ==
  << <<83, 104, 117, 116, 100, 111, 119, 110, 32, 84, 105, 109, 101, 32, 32>>,
     <<72, 105, 103, 104, 32, 84, 111, 110, 101, 32, 32, 32, 32, 32, 32>>,
     <<76, 111, 119, 32, 84, 111, 110, 101, 32, 32, 32, 32, 32, 32, 32>>,
     <<66, 117, 115, 121, 32, 84, 111, 110, 101, 32, 32, 32, 32, 32, 32>>,
     <<77, 97, 120, 32, 66, 97, 116, 116, 32, 84, 101, 109, 112, 32, 32>>,
     <<77, 105, 110, 32, 66, 97, 116, 116, 32, 84, 101, 109, 112, 32, 32>>,
     <<67, 104, 97, 114, 103, 101, 32, 84, 105, 109, 101, 32, 32, 32, 32>>,
     <<68, 105, 115, 99, 104, 97, 114, 103, 101, 32, 84, 105, 109, 101, 32>>,
     <<68, 101, 101, 112, 32, 68, 105, 115, 99, 104, 97, 114, 103, 101, 32>>,
     <<78, 111, 114, 109, 32, 68, 105, 115, 99, 104, 97, 114, 103, 101, 32>> >>

HEXD == 256

NOTCR == 257

Pattern(anchored, elems) == [anchored |-> anchored, elems |-> elems]

\* '\r\n>'  (__init__: not anchored)
PAT_SYNC == Pattern(FALSE, COMMIT_REPLY)
\* '^\r\n>'
PAT_PROMPT == Pattern(TRUE, COMMIT_REPLY)
\* '^AS\r> ADVANCED SETUP'
PAT_AS == Pattern(TRUE, AS_REPLY)
\* f'^\r\n{name:15}([0-9A-F]{{2}})\b\b'
PAT_NAMED(name) == Pattern(TRUE, CRLF \o name \o <<HEXD, HEXD, 8, 8>>)
\* f'^{value:02X}\b'
PAT_VALUE(value) == Pattern(TRUE, FormatHex(value, 2) \o <<8>>)
\* '^\r\nSUM = ([0-9A-F]{8})\r\n>'
PAT_SUM == Pattern(TRUE, CRLF \o SUM_HEAD \o Rep(HEXD, 8) \o SUM_TAIL)
\* '^CH\r>CHECKSUM RAM'
PAT_CH == Pattern(TRUE, CH_HEAD)
\* '^RE\r>RECEIVE BINARY  '
PAT_RE == Pattern(TRUE, RE_HEAD)
\* '^\r\n[0-9A-F]{5},[0-9A-F]{5},\b \b{12}'
PAT_PLACEHOLDER ==
  Pattern(TRUE, CRLF \o Rep(HEXD, 5) \o <<44>> \o Rep(HEXD, 5) \o PLACEHOLDER_TAIL)
\* A pattern that takes any hexadecimal digit for the echo of each_ch.
PAT_ANYHEX(each_ch) == Pattern(TRUE, <<HEXD>>)

\* f'^{each_ch}'
PAT_CHAR(each_ch) == Pattern(TRUE, <<each_ch>>)
\* ','  (not anchored)
PAT_COMMA == Pattern(FALSE, <<44>>)
\* '^\b'
PAT_BS == Pattern(TRUE, <<8>>)
\* '^\r'
PAT_CR == Pattern(TRUE, CR)
\* '^EM\r>EMULATE [^\r]+'
PAT_EM == Pattern(TRUE, EM_HEAD \o <<NOTCR>>)

\* The number of bytes other than '\r' at buf[p], buf[p+1], ...
RECURSIVE RunNotCr(_, _)
RunNotCr(buf, p) ==
  IF p > Len(buf) \/ buf[p] = 13 THEN 0 ELSE 1 + RunNotCr(buf, p + 1)

\* The elements i, i+1, ... match buf from position p on: the position after
\* the match, or 0 when they do not match.
RECURSIVE MatchFrom(_, _, _, _)
MatchFrom(elems, i, buf, p) ==
  IF i > Len(elems) THEN p
  ELSE IF elems[i] = NOTCR
  THEN IF RunNotCr(buf, p) = 0 THEN 0
       ELSE MatchFrom(elems, i + 1, buf, p + RunNotCr(buf, p))
  ELSE IF p > Len(buf) THEN 0
  ELSE IF elems[i] = HEXD /\ IsHexDigit(buf[p]) THEN MatchFrom(elems, i + 1, buf, p + 1)
  ELSE IF elems[i] = buf[p] THEN MatchFrom(elems, i + 1, buf, p + 1)
  ELSE 0

\* spawn.expect(pattern) on the bytes that arrive before the timeout:
\* re.search's leftmost match.  found = FALSE is pexpect's TIMEOUT;
\* otherwise before is what precedes the match and after is the match.
Expect(pat, buf) ==
  LET offs == IF pat.anchored THEN {0} ELSE 0..Len(buf)
      hits == {k \in offs : MatchFrom(pat.elems, 1, buf, k + 1) # 0}
  IN  IF hits = {}
      THEN [found |-> FALSE, before |-> buf, after |-> <<>>, rest |-> buf]
      ELSE LET k == CHOOSE h \in hits : \A g \in hits : h <= g
               e == MatchFrom(pat.elems, 1, buf, k + 1)
           IN  [found |-> TRUE, before |-> Take(buf, k),
                after |-> SubSeq(buf, k + 1, e - 1), rest |-> Drop(buf, e - 1)]

\* An _expect without its assertion.
AnyBefore(before) == TRUE

\* assert self.exp.before == b''  (DatamanS4._expect)
AssertBefore(before) == before = <<>>


(***************************************************************************)
(* Bounds of the model.                                                    *)
(***************************************************************************)
\* Line faults (a stray byte, an altered byte, a late byte) per run.
MaxFaults == 1

\* Operations a library caller invokes on one session.
MaxCalls == 2

\* The device types, native address ranges and RAM contents tried.
DevTypes == {<<50, 55, 49, 54>>}

DevRanges == {<<0, 1>>, <<703711, 703713>>}

RamFill == {7}

\* The High Tone, Low Tone and Busy Tone the device may have been set to.
DevTones == {<<152, 172, 80>>, <<0, 172, 0>>, <<0, 0, 0>>}

\* The file format the device may be set to at first: an index of its cycle.
DevFirstFormats == {1, 5}

\* Output the device may still owe from before the client connected.
PendingOutputs == {<<>>, <<88>>}

\* The bytes a line fault inserts: '\r', '0', 'X' and a non-ASCII byte.
StrayBytes == {13, 48, 88, 255}

\* The local images (the contents of the binary file) tried.
Images == {<<>>, <<255>>, <<1, 2>>, <<255, 255>>, <<0, 3, 250>>}

\* Explicit address arguments a library caller passes (besides None).
ApiAddrs == {703712, 1048575}

\* --start-address and --length of dms4util.py.
StartAddresses == {0, 703712}

Lengths == {1, 2}

\* args.timeout (DEFAULT_TIMEOUT is 0.3 s), and the two overrides, in ms.
DEFAULT_TIMEOUT == 300

RECEIVE_TIMEOUT == 80000

CHECKSUM_TIMEOUT == 30000

(***************************************************************************)
(* State.                                                                  *)
(***************************************************************************)
VARIABLES
  \* the serial line
  tx,            \* writes of the client the device has not yet processed
  devOut,        \* bytes the device has sent that have not yet arrived
  rx,            \* bytes that have arrived, not yet read
  faults,        \* line faults so far
  stalled,       \* the pending read's deadline expires before devOut arrives
  \* the Dataman S4
  dev,           \* the device (see DevInit)
  \* the client
  prog,          \* the program run: "load_ram" or "dms4util"
  flags,         \* dms4util.py's --mute and --emulate
  pc,            \* the statement the client is at
  driver,        \* who uses the session: "none" (not yet), "main", "api"
  op,            \* the public method running, or "none"
  hist,          \* the public methods invoked so far, with their arguments
  synchronized,  \* __init__'s synchronized
  session,       \* the attributes of the DatamanS4 object (see NoSession)
  timeout,       \* self.serial.timeout
  loc,           \* the locals of the running method (see LocInit)
  err,           \* the exception the last method raised
  result,        \* the value the last method returned
  exitcode,      \* the process's exit status, -1 while running
  data_checksum, \* main's data_checksum (chksum in dms4util.py)
  \* observation
  wlog,          \* the writes since (and with) the last command mnemonic
  rlog,          \* what each read since the last command mnemonic returned
  cmds,          \* the command mnemonics written since the program began
  sawMarker,     \* the drain loop has read a '>' byte
  sawPrompt      \* the drain loop has read a line that is '>' and no more

chanVars == <<tx, devOut, rx, faults, stalled>>

devVars == <<dev>>

localVars == <<loc>>

sessVars == <<prog, flags, driver, hist, synchronized, session, data_checksum>>

ctlVars == <<pc, op, timeout, err, result, exitcode, sessVars>>

obsVars == <<wlog, rlog, cmds, sawMarker, sawPrompt>>

vars == <<chanVars, devVars, localVars, ctlVars, obsVars>>

NoErr == [kind |-> "none", bytes |-> <<>>]

\* The locals of the methods, as they are before a method is entered.
LocInit ==
  [ file_format    |-> 0,     \* set_file_format's argument, an index of FileFormat
    data           |-> <<>>,  \* set_ram's / data_to_s4's data
    start          |-> 0,     \* start of set_ram / get_ram_checksum, defaulted
    end            |-> 0,     \* end of set_ram / get_ram_checksum
    try_count      |-> 0,     \* iterations of set_file_format's loop so far
    response       |-> <<>>,  \* response
    device         |-> <<>>,  \* get_device_information's device
    parms_response |-> <<>>,  \* get_device_information's parms_response
    old_timeout    |-> 0,     \* the timeout saved by set_ram / get_ram_checksum
    to_send        |-> <<>>,  \* dms4util's _set_start_end: the digits to send
    sent           |-> 0,     \* ... and how many of them have been sent
    field          |-> 0,     \* ... 1 for mem_start's digits, 2 for mem_end's
    deadline       |-> 0,     \* _get_checksum's timeout, in 1/S4_MEM_SIZE s
    wait           |-> 0,     \* data_to_s4's sleep and _expect timeout, in ms
    name           |-> 0 ]    \* advanced_setup: the index of the named byte

\* One entry of hist.
Call(name, data, s, e, f, dflt) ==
  [op |-> name, data |-> data, start |-> s, end |-> e, file_format |-> f,
   dflt |-> dflt]


(***************************************************************************)
(* The Dataman S4, as the responses the two clients expect describe it.    *)
(* What the device is set to (type, range, file format, tones) is fixed    *)
(* the first time the device shows it.                                     *)
(***************************************************************************)
DevInit(mode) ==
  [ mode       |-> mode,    \* what the device is waiting for
    type       |-> <<>>,    \* its device type, <<>> until it is first shown
    range      |-> <<>>,    \* its native <<start, end>>, <<>> until shown
    restricted |-> FALSE,   \* its range is restricted ('#' in the PRETEST line)
    fmts       |-> <<>>,    \* the file formats its FF key cycles through
    fmt        |-> 0,       \* the index in fmts of its file format, 0 until shown
    fill       |-> 0,       \* the byte its RAM holds where nothing was received
    ram        |-> {},      \* <<address, byte>> for the addresses received
    digits     |-> <<>>,    \* the range digits typed in the running RE or CH
    params     |-> <<>>,    \* the ten bytes of ADVANCED SETUP, <<>> until shown
    param      |-> 0 ]      \* the byte ADVANCED SETUP is showing

\* The formats the FF key cycles through: all five, or (an older firmware)
\* the four text formats only.
DevFormatCycles == {FileFormat, SubSeq(FileFormat, 1, 4)}

\* The device with its type, range and RAM shown; with its format shown;
\* with its ADVANCED SETUP bytes shown.
ShowRange(d) ==
  IF d.range # <<>> THEN {d}
  ELSE {[d EXCEPT !.type = t, !.range = rng, !.fill = f] :
          t \in DevTypes, rng \in DevRanges, f \in RamFill}

ShowRestricted(d) ==
  IF d.range # <<>> THEN {d}
  ELSE {[e EXCEPT !.restricted = r] : e \in ShowRange(d), r \in BOOLEAN}

ShowFormat(d) ==
  IF d.fmt # 0 THEN {d}
  ELSE {[d EXCEPT !.fmts = cyc, !.fmt = Min(i, Len(cyc))] :
          cyc \in DevFormatCycles, i \in DevFirstFormats}

ShowParams(d) ==
  IF d.params # <<>> THEN {d}
  ELSE {[d EXCEPT !.params = <<16, t[1], t[2], t[3], 16, 16, 16, 16, 16, 16>>] :
          t \in DevTones}

\* '\r 00000-7FFFF=00000' and 17 backspaces: start, end, marker, destination.
DevParmsLine(rng, restricted) ==
  <<13, 32>> \o FormatHex(rng[1], 5) \o <<45>> \o FormatHex(rng[2], 5)
    \o (IF restricted THEN <<35>> ELSE <<61>>) \o FormatHex(0, 5) \o BS17

\* '00000,7FFFF,\b ' and 12 backspaces: the range placeholder of RE and CH.
DevPlaceholder(rng) ==
  FormatHex(rng[1], 5) \o <<44>> \o FormatHex(rng[2], 5) \o PLACEHOLDER_TAIL

\* 'RE\r>RECEIVE <format>\r\n': the label names the current file format.
DevReceiveReply(fmt) ==
  SubSeq(RE_REPLY, 1, 12) \o Tail(fmt) \o CRLF

\* '\r\n<name>VV\b\b': ADVANCED SETUP shows byte i.
DevParamLine(d, i) ==
  CRLF \o NamedBytes[i] \o FormatHex(d.params[i], 2) \o <<8, 8>>

\* The echo of the digits m typed after n digits of a range: the cursor
\* skips the comma after the fifth digit and steps back after the tenth.
RECURSIVE DevDigitEcho(_, _)
DevDigitEcho(n, m) ==
  IF m = <<>> THEN <<>>
  ELSE <<Head(m)>> \o (IF n + 1 = 5 THEN <<44>> ELSE IF n + 1 = 10 THEN <<8>> ELSE <<>>)
         \o DevDigitEcho(n + 1, Tail(m))

\* The <<start, end>> typed.
DevSel(d) == <<ParseHex(SubSeq(d.digits, 1, 5)), ParseHex(SubSeq(d.digits, 6, 10))>>

RECURSIVE SumBytes(_)
SumBytes(S) ==
  IF S = {} THEN 0
  ELSE LET p == CHOOSE q \in S : TRUE IN p[2] + SumBytes(S \ {p})

\* The 32-bit sum of the RAM bytes at addresses a..b.
DevSum(d, a, b) ==
  LET got == {p \in d.ram : p[1] >= a /\ p[1] <= b}
      n   == IF b >= a THEN b - a + 1 ELSE 0
      sum == (n - Cardinality(got)) * d.fill + SumBytes(got)
  IN  <<(sum \div 65536) % 65536, sum % 65536>>

\* RAM after the bytes data were received for addresses a, a+1, ...
DevStore(ram, a, data) ==
  {p \in ram : p[1] < a \/ p[1] >= a + Len(data)}
    \cup {<<a + k - 1, data[k]>> : k \in 1..Len(data)}

\* The device in state d takes the write m: the possible <<output, new state>>.
DevStep(d, m) ==
  CASE m = ESCAPE /\ d.mode = "as" ->
         \* ESC at a byte of ADVANCED SETUP ends the function
         {<<COMMIT_REPLY, [d EXCEPT !.mode = "prompt"]>>}
    [] m = ESCAPE /\ d.mode \notin {"as", "data_re"} ->
         \* ESC leaves any other key function and shows the prompt again
         {<<ESC_REPLY, [d EXCEPT !.mode = "prompt"]>>}
    [] m = CR /\ d.mode = "prompt" ->
         {<<COMMIT_REPLY, d>>}
    [] m = CMD_PR /\ d.mode = "prompt" ->
         {<<PRETEST_HEAD \o e.type \o CRLF \o DevParmsLine(e.range, e.restricted),
            [e EXCEPT !.mode = "pretest"]>> : e \in ShowRestricted(d)}
    [] m = CMD_FF /\ d.mode = "prompt" ->
         {<<FF_REPLY \o e.fmts[e.fmt], [e EXCEPT !.mode = "ff"]>> :
            e \in ShowFormat(d)}
    [] m = SPACE /\ d.mode = "ff" ->
         LET next == (d.fmt % Len(d.fmts)) + 1
         IN  {<<d.fmts[next], [d EXCEPT !.fmt = next]>>}
    [] m = CR /\ d.mode = "ff" ->
         {<<COMMIT_REPLY, [d EXCEPT !.mode = "prompt"]>>}
    [] m \in {CMD_RE, CMD_RE_LC} /\ d.mode = "prompt" ->
         {<<DevReceiveReply(e.fmts[e.fmt]) \o DevPlaceholder(e.range),
            [e EXCEPT !.mode = "range_re", !.digits = <<>>]>> :
            e \in UNION {ShowFormat(r) : r \in ShowRange(d)}}
    [] m \in {CMD_CH, CMD_CH_LC} /\ d.mode = "prompt" ->
         {<<CH_REPLY \o DevPlaceholder(e.range),
            [e EXCEPT !.mode = "range_ch", !.digits = <<>>]>> :
            e \in ShowRange(d)}
    [] /\ d.mode \in {"range_re", "range_ch"}
       /\ m # <<>> /\ IsHexRun(m) /\ Len(d.digits) + Len(m) <= 10 ->
         \* digits typed over the placeholder are echoed
         {<<DevDigitEcho(Len(d.digits), m),
            [d EXCEPT !.digits = @ \o m,
                      !.mode = IF Len(d.digits) + Len(m) < 10 THEN @
                               ELSE IF @ = "range_re" THEN "ready_re"
                               ELSE "ready_ch"]>>}
    [] m = CR /\ d.mode = "ready_re" ->
         {<<CR, [d EXCEPT !.mode = "data_re"]>>}
    [] /\ d.mode = "data_re"
       /\ Len(m) >= DevSel(d)[2] - DevSel(d)[1] + 1 ->
         \* the bytes of the range are stored, then the prompt
         {<<COMMIT_REPLY,
            [d EXCEPT !.mode = "prompt",
                      !.ram = DevStore(@, DevSel(d)[1],
                                Take(m, DevSel(d)[2] - DevSel(d)[1] + 1))]>>}
    [] m = CR /\ d.mode = "ready_ch" ->
         {<<CH_ACK \o SUM_HEAD \o FormatHex32(DevSum(d, DevSel(d)[1], DevSel(d)[2]))
              \o SUM_TAIL,
            [d EXCEPT !.mode = "prompt"]>>}
    [] m = CMD_AS /\ d.mode = "prompt" ->
         {<<AS_REPLY \o DevParamLine(e, 1), [e EXCEPT !.mode = "as", !.param = 1]>> :
            e \in ShowParams(d)}
    [] m = CR /\ d.mode = "as" /\ d.param < Len(NamedBytes) ->
         {<<DevParamLine(d, d.param + 1), [d EXCEPT !.param = @ + 1]>>}
    [] d.mode = "as" /\ Len(m) = 2 /\ IsHexRun(m) ->
         {<<m \o <<8>>, [d EXCEPT !.params[d.param] = ParseHex(m)]>>}
    [] m = CMD_EM /\ d.mode = "prompt" ->
         {<<EM_HEAD \o e.type, [e EXCEPT !.mode = "emulate"]>> : e \in ShowRange(d)}
    [] OTHER ->
         \* anything else is ignored
         {<<<<>>, d>>}

\* The device takes the client's oldest write and answers it.
DevRespond ==
  /\ pc # "exit" /\ err = NoErr
  /\ tx # <<>>
  /\ tx' = Tail(tx)
  /\ \E r \in DevStep(dev, Head(tx)) :
       /\ devOut' = devOut \o r[1]
       /\ dev' = r[2]
  /\ UNCHANGED <<rx, faults, stalled>>
  /\ UNCHANGED <<localVars, ctlVars, obsVars>>


(***************************************************************************)
(* The serial line.  While the client drains the line in __init__ (or      *)
(* sleeps before it discards its input) its reads race with the device     *)
(* freely.  Afterwards a response arrives whole before the read that waits *)
(* for it times out, unless a fault (counted in faults) makes part of it   *)
(* late.                                                                   *)
(***************************************************************************)
\* The line is followed while the client goes on: not past the end of the
\* process, nor past an exception that a library caller got.
Running == pc # "exit" /\ err = NoErr

\* Line faults are followed through the two main() programs; a library
\* caller's calls are followed over a clean line.
MayFault == faults < MaxFaults /\ driver # "api"

Draining == pc \in {"sync_read", "u_sleep"}

\* Bytes in flight arrive: all of them, or while draining any first part.
Arrive ==
  /\ Running
  /\ devOut # <<>>
  /\ \E k \in 1..Len(devOut) :
       /\ k = Len(devOut) \/ Draining
       /\ rx' = rx \o Take(devOut, k)
       /\ devOut' = Drop(devOut, k)
  /\ UNCHANGED <<tx, faults, stalled>>
  /\ UNCHANGED <<devVars, localVars, ctlVars, obsVars>>

\* A byte that is not part of any response arrives ahead of the response.
FaultStray ==
  /\ Running
  /\ MayFault
  /\ devOut # <<>>
  /\ \E b \in StrayBytes : devOut' = <<b>> \o devOut
  /\ faults' = faults + 1
  /\ UNCHANGED <<tx, rx, stalled>>
  /\ UNCHANGED <<devVars, localVars, ctlVars, obsVars>>

\* What a line error makes of byte b: 'E', or 'F' when b is 'E'.
Corrupt(b) == IF b = 69 THEN 70 ELSE 69

\* One byte in flight is altered.
FaultFlip ==
  /\ Running
  /\ MayFault
  /\ \E i \in 1..Len(devOut) :
       devOut' = [devOut EXCEPT ![i] = Corrupt(devOut[i])]
  /\ faults' = faults + 1
  /\ UNCHANGED <<tx, rx, stalled>>
  /\ UNCHANGED <<devVars, localVars, ctlVars, obsVars>>

\* Only the first k bytes in flight arrive before the pending read times out.
FaultStall ==
  /\ Running /\ ~Draining
  /\ MayFault
  /\ ~stalled
  /\ tx = <<>>
  /\ \E k \in 0..(Len(devOut) - 1) :
       /\ rx' = rx \o Take(devOut, k)
       /\ devOut' = Drop(devOut, k)
  /\ faults' = faults + 1
  /\ stalled' = TRUE
  /\ UNCHANGED tx
  /\ UNCHANGED <<devVars, localVars, ctlVars, obsVars>>

\* A read returns now: always while draining; later once the device has
\* answered and its answer has arrived, or at a stalled deadline.
CanRead == Draining \/ (tx = <<>> /\ (devOut = <<>> \/ stalled))

(***************************************************************************)
(* The client's steps share these effects.                                 *)
(***************************************************************************)
NoSession == [live |-> FALSE, device_type |-> <<>>, start |-> 0, end |-> 0, length |-> 0]

\* A read took the first n bytes that had arrived.
Recv(n) ==
  /\ rx' = Drop(rx, n)
  /\ rlog' = Append(rlog, Take(rx, n))
  /\ stalled' = FALSE
  /\ UNCHANGED <<devOut, faults>>

\* The step reads nothing.
NoRecv == UNCHANGED <<rx, rlog, devOut, faults, stalled>>

\* A write that sends its bytes twice.
SendTwice(ms) ==
  /\ tx' = tx \o SelectSeq(ms \o ms, LAMBDA m : m # <<>>)
  /\ wlog' = wlog \o ms \o ms
  /\ UNCHANGED cmds

\* self.write(m) for each m of ms, in order; an empty write sends nothing.
Send(ms) ==
  /\ tx' = tx \o SelectSeq(ms, LAMBDA m : m # <<>>)
  /\ wlog' = wlog \o ms
  /\ UNCHANGED cmds

\* self.write(m) of a two-letter command mnemonic; nothing is read.
SendCommand(m, name) ==
  /\ tx' = Append(tx, m)
  /\ wlog' = <<m>>
  /\ rlog' = <<>>
  /\ cmds' = Append(cmds, name)
  /\ UNCHANGED <<rx, devOut, faults, stalled>>

NoSend == UNCHANGED <<tx, wlog, cmds>>

\* The method goes on at statement p with locals l.
Goto(p, l) ==
  /\ pc' = p
  /\ loc' = l
  /\ UNCHANGED <<op, err, result, exitcode>>

\* An exception leaves the running method.  Nothing in either main() catches
\* a CommunicationError or an AssertionError (the interpreter exits with
\* status 1), and dms4util's main returns 1 on pexpect's TIMEOUT.  A
\* KeyboardInterrupt exits with 255 from dataman_s4_load_ram.py, and ends
\* dms4util.py by SIGINT (status 130).  A library caller gets the exception
\* and keeps the session.
Raise(kind, bytes) ==
  /\ err' = [kind |-> kind, bytes |-> bytes]
  /\ loc' = LocInit
  /\ op' = "none"
  /\ UNCHANGED result
  /\ IF driver = "api"
     THEN pc' = "idle" /\ UNCHANGED exitcode
     ELSE /\ pc' = "exit"
          /\ exitcode' = IF kind # "interrupt" THEN 1
                         ELSE IF prog = "load_ram" THEN 255 ELSE 130

\* The running public method returns v to its caller.
Return(v) ==
  /\ err' = NoErr
  /\ result' = v
  /\ loc' = LocInit
  /\ op' = "none"
  /\ pc' = "idle"
  /\ UNCHANGED exitcode

\* What no step of a method touches.
Frame == UNCHANGED <<devVars, sessVars, sawMarker, sawPrompt>>

(***************************************************************************)
(* DatamanS4.__init__ (dataman_s4_load_ram.py).                            *)
(***************************************************************************)
\* self.write(self.ESCAPE); self.write(b'\r'); synchronized = False
Init_Write ==
  /\ pc = "start"
  /\ Send(<<ESCAPE, CR>>)
  /\ synchronized' = FALSE
  /\ Goto("sync_read", loc)
  /\ NoRecv
  /\ UNCHANGED <<timeout, devVars, prog, flags, driver, hist, session, data_checksum>>
  /\ UNCHANGED <<sawMarker, sawPrompt>>

\* A drain loop that ends at the line that is the idle prompt.
DrainUntilPrompt(line) == line # <<>> /\ line # <<62>>

\* while line := self.readline()
DrainGoesOn(line) == line # <<>>

\* A drain loop that took any line with a '>' in it for the idle prompt.
HasPromptByte(line) == \E i \in 1..Len(line) : line[i] = 62

\* if line == b'>'
IsPromptLine(line) == line = PROMPT

\* while line := self.readline(): if line == b'>': synchronized = True
\* and, once a read timed out empty, the check of synchronized.
Sync_Readline ==
  /\ pc = "sync_read"
  /\ CanRead
  /\ LET line == Take(rx, ReadlineCount(rx)) IN
     /\ rx' = Drop(rx, Len(line))
     /\ UNCHANGED <<rlog, devOut, faults, stalled>>
     /\ IF DrainGoesOn(line)
        THEN /\ synchronized' = (synchronized \/ IsPromptLine(line))
             /\ sawMarker' = (sawMarker \/ \E i \in 1..Len(line) : line[i] = 62)
             /\ sawPrompt' = (sawPrompt \/ (Len(line) = 1 /\ line[1] = 62))
             /\ Goto("sync_read", loc)
        ELSE /\ UNCHANGED <<synchronized, sawMarker, sawPrompt>>
             /\ IF synchronized
                THEN Goto("pr_write", loc)
                ELSE Raise("sync", <<>>)
  /\ NoSend
  /\ UNCHANGED <<timeout, devVars, prog, flags, driver, hist, session, data_checksum>>

(***************************************************************************)
(* DatamanS4.get_device_information, called by __init__.                   *)
(***************************************************************************)
\* self.write(b'PR')
PR_Write ==
  /\ pc = "pr_write"
  /\ SendCommand(CMD_PR, "PR")
  /\ pc' = "pr_line"
  /\ op' = "get_device_information"
  /\ UNCHANGED <<loc, err, result, exitcode, timeout>>
  /\ Frame

\* response = self.readline(); device_match = re.fullmatch(...)
PR_Readline ==
  /\ pc = "pr_line"
  /\ CanRead
  /\ LET line == Take(rx, ReadlineCount(rx)) IN
     /\ Recv(Len(line))
     /\ IF MatchPretest(line)
        THEN Goto("pr_parms", [loc EXCEPT !.response = line,
                                          !.device = PretestDevice(line)])
        ELSE Raise("pretest", line)
  /\ NoSend
  /\ UNCHANGED timeout
  /\ Frame

\* parms_response = self.read(parms_len); self.write(self.ESCAPE)
PR_ReadParms ==
  /\ pc = "pr_parms"
  /\ CanRead
  /\ LET r == Take(rx, ReadCount(rx, PretestParmsLen)) IN
     /\ Recv(Len(r))
     /\ Goto("pr_until", [loc EXCEPT !.parms_response = r])
  /\ Send(<<ESCAPE>>)
  /\ UNCHANGED timeout
  /\ Frame

\* A query that took every marker for '='.
NoMarkerRestricts(marker) == FALSE

\* if parms_match.group(3) == b'#'
IsRestrictedMarker(marker) == marker = 35

\* The session __init__ builds from get_device_information's return value.
NewSession(device_type, s, e) ==
  [live |-> TRUE, device_type |-> device_type, start |-> s, end |-> e,
   length |-> e - s + 1]

\* response = self.read_until(b'>', 32) and the rest of the method, then
\* self.length = self.end - self.start + 1 in __init__.
PR_ReadUntil ==
  /\ pc = "pr_until"
  /\ CanRead
  /\ LET r  == Take(rx, ReadUntilCount(rx, 62, 32))
         pr == loc.parms_response
     IN
     /\ Recv(Len(r))
     /\ IF r # ESC_REPLY
        THEN Raise("pretest", r) /\ UNCHANGED session
        ELSE IF MatchParms(pr) /\ IsRestrictedMarker(ParmsMarker(pr))
        THEN Raise("range_restricted", <<>>) /\ UNCHANGED session
        ELSE IF ~IsAscii(loc.device) \/ ~MatchParms(pr)
        THEN \* UnicodeDecodeError (a ValueError) or AttributeError, caught
             Raise("pretest", pr) /\ UNCHANGED session
        ELSE /\ session' = NewSession(loc.device, ParseHex(ParmsStart(pr)),
                                      ParseHex(ParmsEnd(pr)))
             /\ Return(<<0, 0>>)
  /\ NoSend
  /\ UNCHANGED <<timeout, devVars, prog, flags, driver, hist, synchronized, data_checksum>>
  /\ UNCHANGED <<sawMarker, sawPrompt>>


(***************************************************************************)
(* DatamanS4.set_file_format.                                              *)
(***************************************************************************)
\* self.write(b'FF')
FF_Write ==
  /\ pc = "ff_write"
  /\ SendCommand(CMD_FF, "FF")
  /\ Goto("ff_line", loc)
  /\ UNCHANGED timeout
  /\ Frame

\* response = self.readline(); if response != b'FF\r>FILE FORMAT\r\n': raise
FF_Readline ==
  /\ pc = "ff_line"
  /\ CanRead
  /\ LET line == Take(rx, ReadlineCount(rx)) IN
     /\ Recv(Len(line))
     /\ IF line = FF_REPLY
        THEN Goto("ff_cand", [loc EXCEPT !.response = line, !.try_count = 0])
        ELSE Raise("fileformat", line)
  /\ NoSend
  /\ UNCHANGED timeout
  /\ Frame

\* A loop that tries once more than there are file formats.
OneTryTooMany == Cardinality(AllFileFormats) + 1

\* range(len(all_file_formats)): the iterations of set_file_format's loop
MaxTries == Cardinality(AllFileFormats)

\* A loop that takes no candidate for the requested format.
NeverRequested(current, file_format) == FALSE

\* if current_file_format.decode('ascii') == file_format.value
IsRequested(current, file_format) == current = FileFormat[file_format]

\* One iteration of for _try_count in range(len(all_file_formats)), and the
\* loop's else clause when that was the last iteration.
FF_Candidate ==
  /\ pc = "ff_cand"
  /\ CanRead
  /\ LET current_file_format == Take(rx, ReadCount(rx, 9)) IN
     /\ Recv(Len(current_file_format))
     /\ IF ~IsAscii(current_file_format)
        THEN \* current_file_format.decode('ascii') raises UnicodeDecodeError
             /\ NoSend
             /\ Raise("unicode", current_file_format)
        ELSE IF IsRequested(current_file_format, loc.file_format)
        THEN /\ Send(<<CR>>)
             /\ Goto("ff_commit", loc)
        ELSE IF current_file_format \notin AllFileFormats
        THEN /\ Send(<<ESCAPE>>)
             /\ Raise("fileformat", loc.response)
        ELSE /\ Send(<<SPACE>>)
             /\ IF loc.try_count + 1 < MaxTries
                THEN Goto("ff_cand", [loc EXCEPT !.try_count = @ + 1])
                ELSE Raise("notfound", <<>>)
  /\ UNCHANGED timeout
  /\ Frame

\* A set_file_format that takes any answer to its '\r' for the prompt.
AnyCommitResponse(response) == TRUE

\* if response != b'\r\n>': raise  (negated)
IsCommitted(response) == response = COMMIT_REPLY

\* response = self.read_until(b'>', 32); if response != b'\r\n>': raise;
\* break.  set_ram goes on with RECEIVE.
FF_Commit ==
  /\ pc = "ff_commit"
  /\ CanRead
  /\ LET r == Take(rx, ReadUntilCount(rx, 62, 32)) IN
     /\ Recv(Len(r))
     /\ IF ~IsCommitted(r)
        THEN Raise("fileformat", r)
        ELSE IF op = "set_ram"
        THEN Goto("re_write", [loc EXCEPT !.response = <<>>, !.try_count = 0])
        ELSE Return(<<0, 0>>)
  /\ NoSend
  /\ UNCHANGED timeout
  /\ Frame

(***************************************************************************)
(* DatamanS4._set_start_end, called by set_ram and get_ram_checksum.       *)
(***************************************************************************)
\* response = self.read(parms_len); parms_match = ...;
\* self.write(f'{start:05X}{end:05X}'.encode('ascii'))
SSE_Placeholder ==
  /\ pc = "range_ph"
  /\ CanRead
  /\ LET r == Take(rx, ReadCount(rx, PlaceholderLen)) IN
     /\ Recv(Len(r))
     /\ IF MatchPlaceholder(r)
        THEN /\ Send(<<RangeRequest(loc.start, loc.end)>>)
             /\ Goto("range_echo", [loc EXCEPT !.response = r])
        ELSE /\ NoSend
             /\ Raise("checksum_ram", r)
  /\ UNCHANGED timeout
  /\ Frame

\* expected = ...; response = self.read(len(expected)); compare; then the
\* caller's self.write(b'\r') and, in get_ram_checksum, the timeout of 30.
SSE_Echo ==
  /\ pc = "range_echo"
  /\ CanRead
  /\ LET expected == RangeEcho(loc.start, loc.end)
         r == Take(rx, ReadCount(rx, Len(expected)))
     IN
     /\ Recv(Len(r))
     /\ IF r # expected
        THEN /\ NoSend
             /\ Raise("checksum_ram", r)
             /\ UNCHANGED timeout
        ELSE /\ Send(<<CR>>)
             /\ IF op = "set_ram"
                THEN /\ Goto("re_start", [loc EXCEPT !.response = r])
                     /\ UNCHANGED timeout
                ELSE /\ Goto("ch_ack", [loc EXCEPT !.response = r,
                                                   !.old_timeout = timeout])
                     /\ timeout' = CHECKSUM_TIMEOUT
  /\ Frame

(***************************************************************************)
(* DatamanS4.set_ram, after its set_file_format(BINARY).                   *)
(***************************************************************************)
\* self.write(b'RE')
RE_Write ==
  /\ pc = "re_write"
  /\ SendCommand(CMD_RE, "RE")
  /\ Goto("re_line", loc)
  /\ UNCHANGED timeout
  /\ Frame

\* response = self.readline(); if response != b'RE\r>RECEIVE BINARY  \r\n'
RE_Readline ==
  /\ pc = "re_line"
  /\ CanRead
  /\ LET line == Take(rx, ReadlineCount(rx)) IN
     /\ Recv(Len(line))
     /\ IF line = RE_REPLY
        THEN Goto("range_ph", [loc EXCEPT !.response = line])
        ELSE Raise("receive", line)
  /\ NoSend
  /\ UNCHANGED timeout
  /\ Frame

\* A deadline of 80 s for every byte of the image.
ReceiveTimeoutScaled(data) == RECEIVE_TIMEOUT * Len(data)

\* self.serial.timeout = 80, whatever data is
ReceiveTimeout(data) == RECEIVE_TIMEOUT

\* response = self.read(1); if response != b'\r': raise; self.write(data);
\* old_timeout = self.serial.timeout; self.serial.timeout = 80
RE_Start ==
  /\ pc = "re_start"
  /\ CanRead
  /\ LET r == Take(rx, ReadCount(rx, 1)) IN
     /\ Recv(Len(r))
     /\ IF r # CR
        THEN /\ NoSend
             /\ Raise("receive", r)
             /\ UNCHANGED timeout
        ELSE /\ Send(<<loc.data>>)
             /\ Goto("re_done", [loc EXCEPT !.response = r,
                                            !.old_timeout = timeout])
             /\ timeout' = ReceiveTimeout(loc.data)
  /\ Frame

\* response = self.read_until(b'>', 32); self.serial.timeout = old_timeout;
\* if response != b'\r\n>': raise
RE_Done ==
  /\ pc = "re_done"
  /\ CanRead
  /\ LET r == Take(rx, ReadUntilCount(rx, 62, 32)) IN
     /\ Recv(Len(r))
     /\ IF r # COMMIT_REPLY
        THEN Raise("receive", r)
        ELSE Return(<<0, 0>>)
  /\ timeout' = loc.old_timeout
  /\ NoSend
  /\ Frame

(***************************************************************************)
(* DatamanS4.get_ram_checksum.                                             *)
(***************************************************************************)
\* self.write(b'CH')
CH_Write ==
  /\ pc = "ch_write"
  /\ SendCommand(CMD_CH, "CH")
  /\ Goto("ch_line", loc)
  /\ UNCHANGED timeout
  /\ Frame

\* response = self.readline(); if response != b'CH\r>CHECKSUM RAM\r\n'
CH_Readline ==
  /\ pc = "ch_line"
  /\ CanRead
  /\ LET line == Take(rx, ReadlineCount(rx)) IN
     /\ Recv(Len(line))
     /\ IF line = CH_REPLY
        THEN Goto("range_ph", [loc EXCEPT !.response = line])
        ELSE Raise("checksum_ram", line)
  /\ NoSend
  /\ UNCHANGED timeout
  /\ Frame

\* response = self.readline(); self.serial.timeout = old_timeout;
\* if response != b'\r\r\n': raise
CH_Ack ==
  /\ pc = "ch_ack"
  /\ CanRead
  /\ LET line == Take(rx, ReadlineCount(rx)) IN
     /\ Recv(Len(line))
     /\ IF line = CH_ACK
        THEN Goto("ch_sum", [loc EXCEPT !.response = line])
        ELSE Raise("checksum_ram", line)
  /\ timeout' = loc.old_timeout
  /\ NoSend
  /\ Frame

\* response = self.read_until(b'>', 32); checksum_match = ...; return checksum
CH_Sum ==
  /\ pc = "ch_sum"
  /\ CanRead
  /\ LET r == Take(rx, ReadUntilCount(rx, 62, 32)) IN
     /\ Recv(Len(r))
     /\ IF MatchSum(r)
        THEN Return(ParseHex32(SumDigits(r)))
        ELSE Raise("checksum_ram", r)
  /\ NoSend
  /\ UNCHANGED timeout
  /\ Frame


(***************************************************************************)
(* dms4util.py: class DatamanS4 on pexpect.  Every response is awaited by  *)
(* _expect: spawn.expect, then the assertion that nothing preceded the     *)
(* match.                                                                  *)
(***************************************************************************)
\* fdpexpect.fdspawn(..., timeout=0.5), in ms
EXP_TIMEOUT == 500

\* S4_MEM_SIZE = 512 * 1024
S4_MEM_SIZE == 524288

\* A deadline that shrinks as the size grows.
GetChecksumTimeoutShrinking(size) ==
  (EXP_TIMEOUT * S4_MEM_SIZE) \div 1000 - size * 21

\* _get_checksum: timeout = self.exp.timeout + size * 21 / self.S4_MEM_SIZE,
\* in units of 1/S4_MEM_SIZE seconds (self.exp.timeout is 0.5 s).
GetChecksumTimeout(size) ==
  (EXP_TIMEOUT * S4_MEM_SIZE) \div 1000 + size * 21

\* What self._expect(pat) consumes of the bytes that have arrived: through
\* the match, or nothing when pexpect raises TIMEOUT.
ExpectRecv(m) == Recv(IF m.found THEN Len(m.before) + Len(m.after) ELSE 0)

\* self._expect(pat) returns.
ExpectOk(m) == m.found /\ AssertBefore(m.before)

\* self._expect(pat) raises: pexpect's TIMEOUT, or the AssertionError.
ExpectFail(m) == Raise(IF m.found THEN "assert" ELSE "timeout", m.before)

\* A method of dms4util's DatamanS4 returns v to main().
UReturn(v) ==
  /\ err' = NoErr
  /\ result' = v
  /\ loc' = LocInit
  /\ op' = "none"
  /\ pc' = "u_main"
  /\ UNCHANGED exitcode

\* __init__: self.exp.send(self.ESCAPE); time.sleep(0.2)
U_Init_Send ==
  /\ pc = "u_start"
  /\ Send(<<ESCAPE>>)
  /\ Goto("u_sleep", loc)
  /\ NoRecv
  /\ UNCHANGED timeout
  /\ Frame

\* self.ser.reset_input_buffer(); self.exp.send('\r')
U_Reset ==
  /\ pc = "u_sleep"
  /\ rx' = <<>>
  /\ Send(<<CR>>)
  /\ Goto("u_sync", loc)
  /\ UNCHANGED <<rlog, devOut, faults, stalled, timeout>>
  /\ Frame

\* self._expect('\r\n>'); then main's s4.mem_start = args.start_address and
\* s4.mem_size = args.length.
U_Sync ==
  /\ pc = "u_sync"
  /\ CanRead
  /\ LET m == Expect(PAT_SYNC, rx) IN
     /\ ExpectRecv(m)
     /\ IF ExpectOk(m)
        THEN /\ \E a \in StartAddresses, n \in Lengths :
                  session' = [live |-> TRUE, device_type |-> <<>>, start |-> a,
                              end |-> a + n - 1, length |-> n]
             /\ flags' \in [mute : BOOLEAN, emulate : BOOLEAN]
             /\ driver' = "main"
             /\ pc' = "u_main"
             /\ UNCHANGED <<loc, op, err, result, exitcode>>
        ELSE /\ ExpectFail(m)
             /\ UNCHANGED <<session, flags, driver>>
  /\ NoSend
  /\ UNCHANGED <<timeout, devVars, prog, hist, synchronized, data_checksum>>
  /\ UNCHANGED <<sawMarker, sawPrompt>>

\* An advanced_setup that sets every named byte to 0.
MuteEveryByte(mute, i) == 0

\* The values advanced_setup gives the named bytes (-1 for None).
NamedValue(mute, i) ==
  IF i \notin {2, 3, 4} THEN -1
  ELSE IF mute THEN 0
  ELSE <<152, 172, 80>>[i - 1]

\* main: if args.mute: s4.advanced_setup(mute=True), which sends 'as'.
U_AdvancedSetup ==
  /\ pc = "u_main"
  /\ flags.mute /\ hist = <<>>
  /\ SendCommand(CMD_AS, "AS")
  /\ hist' = Append(hist, Call("advanced_setup", <<>>, 0, 0, 0, TRUE))
  /\ pc' = "u_as"
  /\ op' = "advanced_setup"
  /\ UNCHANGED <<loc, err, result, exitcode, timeout>>
  /\ UNCHANGED <<devVars, prog, flags, driver, synchronized, session, data_checksum>>
  /\ UNCHANGED <<sawMarker, sawPrompt>>

\* self._expect('^AS\r> ADVANCED SETUP')
U_AS_Head ==
  /\ pc = "u_as"
  /\ CanRead
  /\ LET m == Expect(PAT_AS, rx) IN
     /\ ExpectRecv(m)
     /\ IF ExpectOk(m)
        THEN Goto("u_as_name", [loc EXCEPT !.name = 1])
        ELSE ExpectFail(m)
  /\ NoSend
  /\ UNCHANGED timeout
  /\ Frame

\* _set_named_byte's last statements: ESC after the last byte, else '\r'.
NamedAdvance(i) == IF i = Len(NamedBytes) THEN ESCAPE ELSE CR

NamedNext(l) ==
  IF l.name = Len(NamedBytes)
  THEN Goto("u_as_done", l)
  ELSE Goto("u_as_name", [l EXCEPT !.name = @ + 1])

\* _set_named_byte: the expected line, current_value, and either the new
\* value or the key that advances.
U_AS_Name ==
  /\ pc = "u_as_name"
  /\ CanRead
  /\ LET m     == Expect(PAT_NAMED(NamedBytes[loc.name]), rx)
         value == NamedValue(TRUE, loc.name)
     IN
     /\ ExpectRecv(m)
     /\ IF ~ExpectOk(m)
        THEN ExpectFail(m) /\ NoSend
        ELSE LET current_value == ParseHex(SubSeq(m.after, 18, 19)) IN
             IF value # -1 /\ value # current_value
             THEN /\ Send(<<FormatHex(value, 2)>>)
                  /\ Goto("u_as_echo", loc)
             ELSE /\ Send(<<NamedAdvance(loc.name)>>)
                  /\ NamedNext(loc)
  /\ UNCHANGED timeout
  /\ Frame

\* self._expect(f'^{value:02X}\b'), then the key that advances.
U_AS_Echo ==
  /\ pc = "u_as_echo"
  /\ CanRead
  /\ LET m == Expect(PAT_VALUE(NamedValue(TRUE, loc.name)), rx) IN
     /\ ExpectRecv(m)
     /\ IF ExpectOk(m)
        THEN Send(<<NamedAdvance(loc.name)>>) /\ NamedNext(loc)
        ELSE ExpectFail(m) /\ NoSend
  /\ UNCHANGED timeout
  /\ Frame

\* advanced_setup's self._expect('^\r\n>')
U_AS_Done ==
  /\ pc = "u_as_done"
  /\ CanRead
  /\ LET m == Expect(PAT_PROMPT, rx) IN
     /\ ExpectRecv(m)
     /\ IF ExpectOk(m) THEN UReturn(<<0, 0>>) ELSE ExpectFail(m)
  /\ NoSend
  /\ UNCHANGED timeout
  /\ Frame

\* main: data_to = args.binary_file.read(); s4.data_to_s4(data_to), which
\* asserts len(data) == self.mem_size and sends 're'.
U_DataToS4 ==
  /\ pc = "u_main"
  /\ Len(hist) = (IF flags.mute THEN 1 ELSE 0)
  /\ \E data \in Images :
       /\ hist' = Append(hist, Call("data_to_s4", data, session.start,
                                    session.end, 0, TRUE))
       /\ IF Len(data) # session.length
          THEN /\ Raise("length", <<>>)
               /\ NoSend
               /\ NoRecv
          ELSE /\ SendCommand(CMD_RE_LC, "RE")
               /\ pc' = "u_re"
               /\ op' = "data_to_s4"
               /\ loc' = [LocInit EXCEPT !.data = data]
               /\ UNCHANGED <<err, result, exitcode>>
  /\ UNCHANGED timeout
  /\ UNCHANGED <<devVars, prog, flags, driver, synchronized, session, data_checksum>>
  /\ UNCHANGED <<sawMarker, sawPrompt>>

\* self._expect('^RE\r>RECEIVE BINARY  ')
U_RE_Head ==
  /\ pc = "u_re"
  /\ CanRead
  /\ LET m == Expect(PAT_RE, rx) IN
     /\ ExpectRecv(m)
     /\ IF ExpectOk(m) THEN Goto("u_sse_ph", loc) ELSE ExpectFail(m)
  /\ NoSend
  /\ UNCHANGED timeout
  /\ Frame

\* _set_start_end: the placeholder, to_send = f'{self.mem_start:05X}' and
\* its first character.
U_SSE_Placeholder ==
  /\ pc = "u_sse_ph"
  /\ CanRead
  /\ LET m       == Expect(PAT_PLACEHOLDER, rx)
         to_send == FormatHex(session.start, 5)
     IN
     /\ ExpectRecv(m)
     /\ IF ExpectOk(m)
        THEN /\ Send(<<<<to_send[1]>>>>)
             /\ Goto("u_sse_echo", [loc EXCEPT !.to_send = to_send, !.sent = 1,
                                               !.field = 1])
        ELSE ExpectFail(m) /\ NoSend
  /\ UNCHANGED timeout
  /\ Frame

\* self._expect(f'^{each_ch}'), and the next character of to_send if any.
U_SSE_Echo ==
  /\ pc = "u_sse_echo"
  /\ CanRead
  /\ LET m == Expect(PAT_CHAR(loc.to_send[loc.sent]), rx) IN
     /\ ExpectRecv(m)
     /\ IF ~ExpectOk(m)
        THEN ExpectFail(m) /\ NoSend
        ELSE IF loc.sent < Len(loc.to_send)
        THEN /\ Send(<<<<loc.to_send[loc.sent + 1]>>>>)
             /\ Goto("u_sse_echo", [loc EXCEPT !.sent = @ + 1])
        ELSE /\ NoSend
             /\ Goto(IF loc.field = 1 THEN "u_sse_comma" ELSE "u_sse_bs", loc)
  /\ UNCHANGED timeout
  /\ Frame

\* self._expect(','); to_send = f'{self.mem_end:05X}' and its first character.
U_SSE_Comma ==
  /\ pc = "u_sse_comma"
  /\ CanRead
  /\ LET m       == Expect(PAT_COMMA, rx)
         to_send == FormatHex(session.end, 5)
     IN
     /\ ExpectRecv(m)
     /\ IF ExpectOk(m)
        THEN /\ Send(<<<<to_send[1]>>>>)
             /\ Goto("u_sse_echo", [loc EXCEPT !.to_send = to_send, !.sent = 1,
                                               !.field = 2])
        ELSE ExpectFail(m) /\ NoSend
  /\ UNCHANGED timeout
  /\ Frame

\* self._expect('^\b'); self._send('\r')
U_SSE_Backspace ==
  /\ pc = "u_sse_bs"
  /\ CanRead
  /\ LET m == Expect(PAT_BS, rx) IN
     /\ ExpectRecv(m)
     /\ IF ExpectOk(m)
        THEN Send(<<CR>>) /\ Goto("u_sse_cr", loc)
        ELSE ExpectFail(m) /\ NoSend
  /\ UNCHANGED timeout
  /\ Frame

\* time.sleep(1.1), in ms
RECEIVE_PAUSE == 1100

\* data_to_s4: time.sleep(1.1), then self._expect('^\r\n>') with the
\* default timeout, whatever data is.
DataToS4Wait(data) == RECEIVE_PAUSE + EXP_TIMEOUT

\* self._expect('^\r'); then data_to_s4's self._send(data), self.ser.flush()
\* and time.sleep(1.1), or checksum_mem's
\* self._get_checksum(self.mem_size) up to its _expect.
U_SSE_Cr ==
  /\ pc = "u_sse_cr"
  /\ CanRead
  /\ LET m == Expect(PAT_CR, rx) IN
     /\ ExpectRecv(m)
     /\ IF ~ExpectOk(m)
        THEN ExpectFail(m) /\ NoSend
        ELSE IF op = "data_to_s4"
        THEN /\ Send(<<loc.data>>)
             /\ Goto("u_re_done", [loc EXCEPT !.wait = DataToS4Wait(loc.data)])
        ELSE /\ NoSend
             /\ Goto("u_sum",
                     [loc EXCEPT !.deadline = GetChecksumTimeout(session.length)])
  /\ UNCHANGED timeout
  /\ Frame

\* data_to_s4's self._expect('^\r\n>')
U_RE_Done ==
  /\ pc = "u_re_done"
  /\ CanRead
  /\ LET m == Expect(PAT_PROMPT, rx) IN
     /\ ExpectRecv(m)
     /\ IF ExpectOk(m) THEN UReturn(<<0, 0>>) ELSE ExpectFail(m)
  /\ NoSend
  /\ UNCHANGED timeout
  /\ Frame

\* main: chksum = sum(data_to); s4.checksum_mem(), which sends 'ch'.  (An
\* image the device has room for sums to less than 2^32.)
U_ChecksumMem ==
  /\ pc = "u_main"
  /\ hist # <<>> /\ hist[Len(hist)].op = "data_to_s4"
  /\ data_checksum' = Checksum32(hist[Len(hist)].data)
  /\ SendCommand(CMD_CH_LC, "CH")
  /\ hist' = Append(hist, Call("checksum_mem", <<>>, session.start, session.end,
                               0, TRUE))
  /\ pc' = "u_ch"
  /\ op' = "checksum_mem"
  /\ UNCHANGED <<loc, err, result, exitcode, timeout>>
  /\ UNCHANGED <<devVars, prog, flags, driver, synchronized, session>>
  /\ UNCHANGED <<sawMarker, sawPrompt>>

\* self._expect('^CH\r>CHECKSUM RAM')
U_CH_Head ==
  /\ pc = "u_ch"
  /\ CanRead
  /\ LET m == Expect(PAT_CH, rx) IN
     /\ ExpectRecv(m)
     /\ IF ExpectOk(m) THEN Goto("u_sse_ph", loc) ELSE ExpectFail(m)
  /\ NoSend
  /\ UNCHANGED timeout
  /\ Frame

\* _get_checksum: self._expect('^\r\nSUM = ([0-9A-F]{8})\r\n>', ...);
\* return int(self.exp.match.group(1), 16)
U_Sum ==
  /\ pc = "u_sum"
  /\ CanRead
  /\ LET m == Expect(PAT_SUM, rx) IN
     /\ ExpectRecv(m)
     /\ IF ExpectOk(m)
        THEN UReturn(ParseHex32(SubSeq(m.after, 9, 16)))
        ELSE ExpectFail(m)
  /\ NoSend
  /\ UNCHANGED timeout
  /\ Frame

\* main: assert chksum == s4.checksum_mem(); if args.emulate: s4.emulate()
\* (which sends 'em'); return 0
U_Assert ==
  /\ pc = "u_main"
  /\ hist # <<>> /\ hist[Len(hist)].op = "checksum_mem"
  /\ IF data_checksum # result
     THEN /\ Raise("mismatch", <<>>)
          /\ NoSend
          /\ NoRecv
          /\ UNCHANGED hist
     ELSE IF flags.emulate
     THEN /\ SendCommand(CMD_EM, "EM")
          /\ hist' = Append(hist, Call("emulate", <<>>, 0, 0, 0, TRUE))
          /\ pc' = "u_em"
          /\ op' = "emulate"
          /\ UNCHANGED <<loc, err, result, exitcode>>
     ELSE /\ pc' = "exit"
          /\ exitcode' = 0
          /\ NoSend
          /\ NoRecv
          /\ UNCHANGED <<loc, op, err, result, hist>>
  /\ UNCHANGED timeout
  /\ UNCHANGED <<devVars, prog, flags, driver, synchronized, session, data_checksum>>
  /\ UNCHANGED <<sawMarker, sawPrompt>>

\* emulate's self._expect('^EM\r>EMULATE [^\r]+'); main returns 0
U_Emulate ==
  /\ pc = "u_em"
  /\ CanRead
  /\ LET m == Expect(PAT_EM, rx) IN
     /\ ExpectRecv(m)
     /\ IF ExpectOk(m)
        THEN /\ pc' = "exit"
             /\ exitcode' = 0
             /\ op' = "none"
             /\ loc' = LocInit
             /\ UNCHANGED <<err, result>>
        ELSE ExpectFail(m)
  /\ NoSend
  /\ UNCHANGED timeout
  /\ Frame


(***************************************************************************)
(* main() of dataman_s4_load_ram.py, after dm_s4 = DatamanS4(args).        *)
(***************************************************************************)
\* A set_ram that takes end for the address after the last byte.
EnterSetRamEndAfter(d, s) ==
  [LocInit EXCEPT !.data = d, !.start = s, !.end = s + Len(d), !.file_format = 5]

\* set_ram's first statements: start defaults to self.start,
\* end = start + len(data) - 1, then self.set_file_format(BINARY).
EnterSetRam(d, s) ==
  [LocInit EXCEPT !.data = d, !.start = s, !.end = s + Len(d) - 1,
                  !.file_format = 5]

\* A get_ram_checksum that leaves the last address out.
EnterGetRamChecksumShort(s, e) == [LocInit EXCEPT !.start = s, !.end = e - 1]

\* get_ram_checksum's first statements: start and end default to the
\* session's.
EnterGetRamChecksum(s, e) == [LocInit EXCEPT !.start = s, !.end = e]

\* A main() that checks no length.
AnyLength(data, length) == FALSE

\* if len(data) != dm_s4.length
LengthDiffers(data, length) == Len(data) # length

\* A main() that compares nothing.
NeverDiffer(a, b) == FALSE

\* if data_checksum != ram_checksum
ChecksumsDiffer(a, b) == a # b

\* data = binfile.read(); the length check; data_checksum = ...;
\* dm_s4.set_ram(data)
Main_ReadFile ==
  /\ pc = "idle" /\ driver = "none"
  /\ driver' = "main"
  /\ \E d \in Images :
       IF LengthDiffers(d, session.length)
       THEN /\ pc' = "exit"
            /\ exitcode' = 1
            /\ err' = [kind |-> "length", bytes |-> <<>>]
            /\ UNCHANGED <<loc, op, hist, data_checksum>>
       ELSE /\ data_checksum' = Checksum32(d)
            /\ pc' = "ff_write"
            /\ op' = "set_ram"
            /\ hist' = Append(hist, Call("set_ram", d, session.start,
                                         session.start + Len(d) - 1, 5, TRUE))
            /\ loc' = EnterSetRam(d, session.start)
            /\ UNCHANGED <<exitcode, err>>
  /\ UNCHANGED <<result, timeout, prog, flags, synchronized, session>>
  /\ UNCHANGED <<chanVars, devVars, obsVars>>

\* ram_checksum = dm_s4.get_ram_checksum()
Main_Checksum ==
  /\ pc = "idle" /\ driver = "main" /\ Len(hist) = 1
  /\ pc' = "ch_write"
  /\ op' = "get_ram_checksum"
  /\ hist' = Append(hist, Call("get_ram_checksum", <<>>, session.start,
                               session.end, 0, TRUE))
  /\ loc' = EnterGetRamChecksum(session.start, session.end)
  /\ UNCHANGED <<err, result, exitcode, timeout>>
  /\ UNCHANGED <<prog, flags, driver, synchronized, session, data_checksum>>
  /\ UNCHANGED <<chanVars, devVars, obsVars>>

\* if data_checksum != ram_checksum: ... return 1;  return 0
Main_Compare ==
  /\ pc = "idle" /\ driver = "main" /\ Len(hist) = 2
  /\ pc' = "exit"
  /\ IF ChecksumsDiffer(data_checksum, result)
     THEN exitcode' = 1 /\ err' = [kind |-> "mismatch", bytes |-> <<>>]
     ELSE exitcode' = 0 /\ UNCHANGED err
  /\ UNCHANGED <<loc, op, result, timeout, sessVars>>
  /\ UNCHANGED <<chanVars, devVars, obsVars>>

(***************************************************************************)
(* A library caller of dataman_s4_load_ram's class DatamanS4: any public   *)
(* method, any argument.                                                   *)
(***************************************************************************)
\* After an exception the caller makes no further call on this session: a
\* device left in the middle of a key function has to be synchronized anew,
\* which only a new DatamanS4 does.
ApiReady ==
  /\ pc = "idle" /\ driver \in {"none", "api"}
  /\ Len(hist) < MaxCalls
  /\ err = NoErr

ApiFrame ==
  /\ driver' = "api"
  /\ UNCHANGED <<err, result, exitcode, timeout>>
  /\ UNCHANGED <<prog, flags, synchronized, session, data_checksum>>
  /\ UNCHANGED <<chanVars, devVars, obsVars>>

Api_SetFileFormat ==
  /\ ApiReady
  /\ \E f \in 1..Len(FileFormat) :
       /\ loc' = [LocInit EXCEPT !.file_format = f]
       /\ hist' = Append(hist, Call("set_file_format", <<>>, 0, 0, f, TRUE))
  /\ pc' = "ff_write"
  /\ op' = "set_file_format"
  /\ ApiFrame

\* start is None (the session's start) or an address.
Api_SetRam ==
  /\ ApiReady
  /\ \E d \in Images, s \in ApiAddrs \cup {-1} :
       LET start == IF s = -1 THEN session.start ELSE s IN
       /\ loc' = EnterSetRam(d, start)
       /\ hist' = Append(hist, Call("set_ram", d, start, start + Len(d) - 1, 5,
                                    s = -1))
  /\ pc' = "ff_write"
  /\ op' = "set_ram"
  /\ ApiFrame

\* start and end are None (the session's) or addresses.
Api_GetRamChecksum ==
  /\ ApiReady
  /\ \E s \in ApiAddrs \cup {-1}, e \in ApiAddrs \cup {-1} :
       LET start == IF s = -1 THEN session.start ELSE s
           end   == IF e = -1 THEN session.end ELSE e
       IN
       /\ loc' = EnterGetRamChecksum(start, end)
       /\ hist' = Append(hist, Call("get_ram_checksum", <<>>, start, end, 0,
                                    s = -1 /\ e = -1))
  /\ pc' = "ch_write"
  /\ op' = "get_ram_checksum"
  /\ ApiFrame

(***************************************************************************)
(* A read that blocks (nothing has arrived for it yet) is left by an       *)
(* exception of its own: KeyboardInterrupt (which dataman_s4_load_ram's    *)
(* __main__ handles), or serial.SerialException.                           *)
(***************************************************************************)
ReadPcs ==
  {"sync_read", "pr_line", "pr_parms", "pr_until", "ff_line", "ff_cand",
   "ff_commit", "range_ph", "range_echo", "re_line", "re_start", "re_done",
   "ch_line", "ch_ack", "ch_sum",
   "u_sleep", "u_sync", "u_as", "u_as_name", "u_as_echo", "u_as_done", "u_re",
   "u_sse_ph", "u_sse_echo", "u_sse_comma", "u_sse_bs", "u_sse_cr",
   "u_re_done", "u_ch", "u_sum", "u_em"}

Interrupt ==
  /\ pc \in ReadPcs
  /\ rx = <<>> /\ devOut = <<>>
  /\ Raise("interrupt", <<>>)
  /\ UNCHANGED <<timeout, sessVars>>
  /\ UNCHANGED <<chanVars, devVars, obsVars>>

(***************************************************************************)
(* The specification.                                                      *)
(***************************************************************************)
\* What the device may be doing when the client connects.
DevInitModes == {"prompt", "pretest"}

Init ==
  /\ tx = <<>>
  /\ devOut \in PendingOutputs
  /\ rx = <<>>
  /\ faults = 0
  /\ stalled = FALSE
  /\ dev \in {DevInit(mode) : mode \in DevInitModes}
  /\ prog \in {"load_ram", "dms4util"}
  /\ flags = [mute |-> FALSE, emulate |-> FALSE]
  /\ pc = IF prog = "load_ram" THEN "start" ELSE "u_start"
  /\ driver = "none"
  /\ op = "none"
  /\ hist = <<>>
  /\ synchronized = FALSE
  /\ session = NoSession
  /\ timeout = IF prog = "load_ram" THEN DEFAULT_TIMEOUT ELSE EXP_TIMEOUT
  /\ loc = LocInit
  /\ err = NoErr
  /\ result = <<0, 0>>
  /\ exitcode = -1
  /\ data_checksum = <<0, 0>>
  /\ wlog = <<>>
  /\ rlog = <<>>
  /\ cmds = <<>>
  /\ sawMarker = FALSE
  /\ sawPrompt = FALSE

Next ==
  \/ DevRespond \/ Arrive \/ FaultStray \/ FaultFlip \/ FaultStall
  \/ Init_Write \/ Sync_Readline
  \/ PR_Write \/ PR_Readline \/ PR_ReadParms \/ PR_ReadUntil
  \/ FF_Write \/ FF_Readline \/ FF_Candidate \/ FF_Commit
  \/ SSE_Placeholder \/ SSE_Echo
  \/ RE_Write \/ RE_Readline \/ RE_Start \/ RE_Done
  \/ CH_Write \/ CH_Readline \/ CH_Ack \/ CH_Sum
  \/ Main_ReadFile \/ Main_Checksum \/ Main_Compare
  \/ Api_SetFileFormat \/ Api_SetRam \/ Api_GetRamChecksum
  \/ U_Init_Send \/ U_Reset \/ U_Sync
  \/ U_AdvancedSetup \/ U_AS_Head \/ U_AS_Name \/ U_AS_Echo \/ U_AS_Done
  \/ U_DataToS4 \/ U_RE_Head
  \/ U_SSE_Placeholder \/ U_SSE_Echo \/ U_SSE_Comma \/ U_SSE_Backspace \/ U_SSE_Cr
  \/ U_RE_Done \/ U_ChecksumMem \/ U_CH_Head \/ U_Sum \/ U_Assert \/ U_Emulate
  \/ Interrupt

Spec == Init /\ [][Next]_vars

\* The client of dataman_s4_load_ram.py is a running process: its
\* constructor goes on to write, and each readline of its drain loop returns
\* (with a line, or empty at its timeout).
LiveSpec == Spec /\ WF_vars(Init_Write) /\ WF_vars(Sync_Readline)


(***************************************************************************)
(* Properties.                                                             *)
(***************************************************************************)
\* f'{n:05X}' for 0 <= n <= 0xFFFFF, digit by digit.
Hex5(n) ==
  <<HexChar((n \div 65536) % 16), HexChar((n \div 4096) % 16),
    HexChar((n \div 256) % 16), HexChar((n \div 16) % 16), HexChar(n % 16)>>

\* The last entry of a log.
Last(log) == log[Len(log)]

\* s ends with the bytes p.
EndsWith(s, p) == Len(s) >= Len(p) /\ SubSeq(s, Len(s) - Len(p) + 1, Len(s)) = p

(***************************************************************************)
(* C1.  Synchronization.                                                   *)
(***************************************************************************)
\* The drain loop of dataman_s4_load_ram.py has ended and was not interrupted.
DrainEnded ==
  /\ prog = "load_ram"
  /\ pc \notin {"start", "sync_read"}
  /\ ~(err.kind = "interrupt" /\ cmds = <<>>)

\* dataman_s4_load_ram.py went on past the drain loop.
SyncSucceeded == pc = "pr_write" \/ cmds # <<>>

\* The constructor of dms4util.py has ended and was not interrupted.
USyncEnded ==
  /\ prog = "dms4util"
  /\ pc \in {"u_main", "exit"}
  /\ cmds = <<>> /\ hist = <<>>
  /\ err.kind # "interrupt"

\* C1 as stated: synchronization ends Synchronized if and only if a '>' was
\* observed before the drain timeout, and ends Failed otherwise, whatever
\* noise is interleaved with the marker.
SyncIffMarkerSeen ==
  DrainEnded =>
    IF sawMarker THEN SyncSucceeded ELSE (err.kind = "sync" /\ cmds = <<>>)

\* C1 (amended): dataman_s4_load_ram.py ends Synchronized if and only if one
\* of the lines its drain loop read is '>' and nothing else, and raises
\* 'Could not synchronize' otherwise; dms4util.py goes on if and only if
\* '\r\n>' is the first thing it receives after it discarded its input, and
\* otherwise ends with pexpect's TIMEOUT (which consumed nothing) or with the
\* AssertionError of _expect (bytes came before '\r\n>').
SyncIffPromptLine ==
  /\ prog = "load_ram" => synchronized = sawPrompt
  /\ DrainEnded =>
       IF sawPrompt THEN SyncSucceeded ELSE (err.kind = "sync" /\ cmds = <<>>)
  /\ USyncEnded =>
       /\ Len(rlog) = 1
       /\ err.kind \in {"none", "timeout", "assert"}
       /\ err.kind = "none" <=> rlog[1] = COMMIT_REPLY
       /\ err.kind = "timeout" => rlog[1] = <<>>
       /\ err.kind = "assert" =>
            /\ EndsWith(rlog[1], COMMIT_REPLY)
            /\ err.bytes = Take(rlog[1], Len(rlog[1]) - Len(COMMIT_REPLY))
            /\ err.bytes # <<>>

\* C1's case: a '>' was read, on a line with other bytes, and the
\* synchronization failed.
SyncFailedWithMarkerSeen == err.kind = "sync" /\ sawMarker

(***************************************************************************)
(* C2.  Anchoring.                                                         *)
(***************************************************************************)
\* The statements that wait for an expected response and check it at once
\* (get_device_information checks its parameter line, read at "pr_parms",
\* only after its next read).
ExpectPcs == ReadPcs \ {"sync_read", "u_sleep", "pr_parms"}

\* The bytes c are, from the first to the last, what the elements say: a
\* byte, or HEXD for one of [0-9A-F].
Fits(elems, c) ==
  /\ Len(c) = Len(elems)
  /\ \A i \in 1..Len(c) :
       IF elems[i] = HEXD THEN IsHexDigit(c[i]) ELSE c[i] = elems[i]

\* The bytes c are exactly the response the statement at p waits for, with
\* the locals l.
IsExpected(p, l, c) ==
  CASE p = "pr_line"    -> /\ Len(c) >= Len(PRETEST_HEAD) + 2
                           /\ Take(c, Len(PRETEST_HEAD)) = PRETEST_HEAD
                           /\ EndsWith(c, CRLF)
    [] p = "pr_until"   -> c = ESC_REPLY
    [] p = "ff_line"    -> c = FF_REPLY
    [] p = "ff_cand"    -> c \in AllFileFormats
    [] p = "ff_commit"  -> c = COMMIT_REPLY
    [] p = "range_ph"   -> Fits(Rep(HEXD, 5) \o <<44>> \o Rep(HEXD, 5)
                                  \o PLACEHOLDER_TAIL, c)
    [] p = "range_echo" -> c = RangeEcho(l.start, l.end)
    [] p = "re_line"    -> c = RE_REPLY
    [] p = "re_start"   -> c = CR
    [] p = "re_done"    -> c = COMMIT_REPLY
    [] p = "ch_line"    -> c = CH_REPLY
    [] p = "ch_ack"     -> c = CH_ACK
    [] p = "ch_sum"     -> Fits(SUM_HEAD \o Rep(HEXD, 8) \o SUM_TAIL, c)
    [] p = "u_sync"     -> c = COMMIT_REPLY
    [] p = "u_as"       -> c = AS_REPLY
    [] p = "u_as_name"  -> Fits(CRLF \o NamedBytes[l.name] \o <<HEXD, HEXD, 8, 8>>, c)
    [] p = "u_as_echo"  -> c = FormatHex(NamedValue(TRUE, l.name), 2) \o <<8>>
    [] p = "u_as_done"  -> c = COMMIT_REPLY
    [] p = "u_re"       -> c = RE_HEAD
    [] p = "u_sse_ph"   -> Fits(CRLF \o Rep(HEXD, 5) \o <<44>> \o Rep(HEXD, 5)
                                  \o PLACEHOLDER_TAIL, c)
    [] p = "u_sse_echo" -> c = <<l.to_send[l.sent]>>
    [] p = "u_sse_comma" -> c = <<44>>
    [] p = "u_sse_bs"   -> c = <<8>>
    [] p = "u_sse_cr"   -> c = CR
    [] p = "u_re_done"  -> c = COMMIT_REPLY
    [] p = "u_ch"       -> c = CH_HEAD
    [] p = "u_sum"      -> Fits(CRLF \o SUM_HEAD \o Rep(HEXD, 8) \o SUM_TAIL, c)
    [] p = "u_em"       -> /\ Len(c) > Len(EM_HEAD)
                           /\ Take(c, Len(EM_HEAD)) = EM_HEAD
                           /\ \A i \in (Len(EM_HEAD) + 1)..Len(c) : c[i] # 13
    [] OTHER            -> FALSE

\* A statement at one of ExpectPcs has read, and went on.
ExpectStepOk == pc \in ExpectPcs /\ Len(rlog') = Len(rlog) + 1 /\ err' = NoErr

\* C2: a step that waits for an expected response succeeds only when the
\* bytes it consumed are, from the first byte that had arrived, exactly the
\* expected response: with any byte before the response the step fails,
\* although the bytes behind that byte are exactly the expected response.
AnchoredExpect ==
  [][ExpectStepOk => IsExpected(pc, loc, Last(rlog'))]_vars

\* C2's case: 'X' arrived before '\r\n>', _expect('\r\n>') found the prompt
\* behind it and its assertion failed.
StrayByteBeforePrompt ==
  /\ err.kind = "assert"
  /\ err.bytes = <<88>>
  /\ rlog = <<(<<88>> \o COMMIT_REPLY)>>

(***************************************************************************)
(* C3.  Round trip.                                                        *)
(***************************************************************************)
\* Over a line without faults set_ram(B), start defaulted, and then
\* get_ram_checksum(), range defaulted, have both returned.
RoundTripDone ==
  /\ prog = "load_ram"
  /\ pc = "idle" /\ err = NoErr /\ faults = 0
  /\ Len(hist) = 2
  /\ hist[1].op = "set_ram" /\ hist[1].dflt
  /\ hist[2].op = "get_ram_checksum" /\ hist[2].dflt

\* C3 as stated: for every byte sequence B, set_ram(B) followed by
\* get_ram_checksum() over a lossless line returns sum(B) mod 2^32.
RoundTripAnyImage ==
  RoundTripDone => result = Checksum32(hist[1].data)

\* C3 (amended): for every byte sequence B as long as the device's native
\* range, set_ram(B) followed by get_ram_checksum() over a lossless line
\* returns sum(B) mod 2^32.
RoundTripFullImage ==
  (RoundTripDone /\ Len(hist[1].data) = session.length) =>
    result = Checksum32(hist[1].data)

\* C3's case: the round trip of an image of the device's length.
RoundTripOfFullImage ==
  /\ RoundTripDone
  /\ hist[1].data = <<0, 3, 250>>
  /\ session.length = 3
  /\ result = <<0, 253>>

(***************************************************************************)
(* C4.  The range negotiation of dataman_s4_load_ram.py.                   *)
(***************************************************************************)
\* start <= end <= 0xFFFFF
ValidRange(s, e) == 0 <= s /\ s <= e /\ e <= 1048575

\* '{start:05X},{end:05X}\b', digit by digit.
Echo12(s, e) == Hex5(s) \o <<44>> \o Hex5(e) \o <<8>>

\* _set_start_end raised at its second comparison: the command and the
\* range were written, the head line, the placeholder and the echo were read.
EchoRefused ==
  /\ err.kind = "checksum_ram"
  /\ Len(wlog) = 2 /\ Len(rlog) = 3
  /\ hist # <<>> /\ Last(hist).op \in {"set_ram", "get_ram_checksum"}

\* C4: for start <= end <= 0xFFFFF, _set_start_end, once it has accepted the
\* placeholder, writes the 10 characters '{start:05X}{end:05X}' in one write;
\* it returns only if the next 12 bytes read are '{start:05X},{end:05X}\b',
\* and raises CommunicationError on any other echo.
RangeNegotiation ==
  /\ (pc = "range_echo" /\ ValidRange(loc.start, loc.end)) =>
       /\ Len(wlog) = 2
       /\ wlog[2] = Hex5(loc.start) \o Hex5(loc.end)
       /\ Len(wlog[2]) = 10
  /\ (pc \in {"re_start", "ch_ack"} /\ ValidRange(loc.start, loc.end)) =>
       /\ Len(rlog) = 3
       /\ Last(rlog) = Echo12(loc.start, loc.end)
       /\ Len(Last(rlog)) = 12
  /\ (EchoRefused /\ ValidRange(Last(hist).start, Last(hist).end)) =>
       Last(rlog) # Echo12(Last(hist).start, Last(hist).end)

\* C4's case: the range ABCE0..FFFFF was written and its echo accepted.
RangeAccepted ==
  /\ pc = "ch_ack"
  /\ loc.start = 703712 /\ loc.end = 1048575
  /\ wlog = <<CMD_CH, <<65, 66, 67, 69, 48, 70, 70, 70, 70, 70>>, CR>>
  /\ Last(rlog) = <<65, 66, 67, 69, 48, 44, 70, 70, 70, 70, 70, 8>>

(***************************************************************************)
(* C5.  set_ram's range, and a refused echo.                               *)
(***************************************************************************)
\* set_ram of 2048 bytes at 0x00000 asks for 00000..007FF.
SetRam2048 ==
  /\ EnterSetRam(Rep(255, 2048), 0).end = 2047
  /\ Hex5(2047) = <<48, 48, 55, 70, 70>>
  /\ RangeRequest(0, EnterSetRam(Rep(255, 2048), 0).end)
       = <<48, 48, 48, 48, 48, 48, 48, 55, 70, 70>>
  /\ RangeEcho(0, EnterSetRam(Rep(255, 2048), 0).end)
       # <<48, 48, 48, 48, 48, 44, 48, 48, 55, 70, 69, 8>>

\* C5: set_ram with start defaulted asks for the range from the device's
\* native start to start + len(data) - 1 (2048 bytes at 0x00000: 007FF); when
\* the echo of the range differs from the range asked for, set_ram raises
\* CommunicationError and has written the command and the range only: no
\* carriage return to start the transfer and no byte of the image.
SetRamRange ==
  /\ SetRam2048
  /\ (op = "set_ram" /\ Last(hist).dflt
        /\ pc \in {"re_write", "re_line", "range_ph", "range_echo"}) =>
       /\ loc.start = session.start
       /\ loc.end = session.start + Len(loc.data) - 1
  /\ (op = "set_ram" /\ Last(hist).dflt /\ pc = "range_echo"
        /\ ValidRange(loc.start, loc.end)) =>
       wlog = <<CMD_RE, Hex5(session.start)
                          \o Hex5(session.start + Len(Last(hist).data) - 1)>>
  /\ (EchoRefused /\ Last(hist).op = "set_ram") =>
       /\ wlog = <<CMD_RE, RangeRequest(Last(hist).start, Last(hist).end)>>
       /\ \A i \in 1..Len(tx) : tx[i] # CR /\ tx[i] # Last(hist).data
       /\ Len(hist) = 1 => dev.ram = {}

\* C5's case: 00000..00001 was asked for, the device's echo arrived as
\* '00000,0000E\b', and set_ram raised.
SetRamEchoRefused ==
  /\ EchoRefused
  /\ Last(hist).op = "set_ram" /\ Last(hist).dflt
  /\ Last(hist).data = <<1, 2>>
  /\ wlog = <<CMD_RE, <<48, 48, 48, 48, 48, 48, 48, 48, 48, 49>>>>
  /\ Last(rlog) = <<48, 48, 48, 48, 48, 44, 48, 48, 48, 48, 69, 8>>

(***************************************************************************)
(* C6.  The file-format selection is bounded.                              *)
(***************************************************************************)
\* The last command written is the FF of the last method invoked: wlog and
\* rlog are those of its selection.
InFileFormat ==
  /\ cmds # <<>> /\ Last(cmds) = "FF"
  /\ pc # "ff_write"
  /\ hist # <<>> /\ Last(hist).op \in {"set_ram", "set_file_format"}

\* The token set_file_format was asked to select.
Requested == FileFormat[Last(hist).file_format]

\* The 'next' keys sent, and the candidates read, in the selection so far.
NextKeys == Cardinality({i \in 1..Len(wlog) : wlog[i] = SPACE})

\* rlog holds the head line, then the candidates, then (once '\r' was written
\* and answered) the prompt.
Candidates ==
  IF rlog = <<>> THEN 0
  ELSE IF pc # "ff_commit" /\ \E i \in 1..Len(wlog) : wlog[i] = CR
  THEN Len(rlog) - 2
  ELSE Len(rlog) - 1

\* The first n candidates read are known tokens other than the requested.
OthersOnly(n) ==
  /\ Len(rlog) >= n + 1
  /\ rlog[1] = FF_REPLY
  /\ \A i \in 2..(n + 1) : rlog[i] \in AllFileFormats \ {Requested}

\* C6: set_file_format reads at most 5 candidates (the size of FileFormat)
\* and sends at most 5 'next' keys; when the device echoes, five times, known
\* tokens other than the requested one, it fails with 'not found' after the
\* fifth, having read 5 candidates and sent 5 'next' keys.
FileFormatBounded ==
  InFileFormat =>
    /\ NextKeys <= 5
    /\ Candidates <= 5
    /\ err.kind = "notfound" =>
         /\ wlog = <<CMD_FF, SPACE, SPACE, SPACE, SPACE, SPACE>>
         /\ Len(rlog) = 6
         /\ OthersOnly(5)
    /\ OthersOnly(5) => (err.kind = "notfound" /\ Len(rlog) = 6)

\* C6's case: a device whose FF key cycles through the four text formats
\* was asked for BINARY, and the selection failed with 'not found'.
FileFormatNotFound ==
  /\ InFileFormat
  /\ err.kind = "notfound"
  /\ Requested = FMT_BINARY
  /\ Len(dev.fmts) = 4
  /\ NextKeys = 5 /\ Candidates = 5

(***************************************************************************)
(* C7.  The timeout override of set_ram and get_ram_checksum.              *)
(***************************************************************************)
\* The timeout the session was configured with.
ConfiguredTimeout == IF prog = "load_ram" THEN DEFAULT_TIMEOUT ELSE EXP_TIMEOUT

\* C7: whenever no operation is running (before the first, and after each
\* has ended, by a return or by any exception) the transport's read timeout
\* is the configured one.
TimeoutRestored == op = "none" => timeout = ConfiguredTimeout

(***************************************************************************)
(* C8.  The length check.                                                  *)
(***************************************************************************)
\* The images handed over for transfer so far.
ImagesGiven ==
  {hist[i].data : i \in {j \in 1..Len(hist) : hist[j].op \in {"set_ram", "data_to_s4"}}}

\* A command of the transfer has been written.
TransferBegun == \E i \in 1..Len(cmds) : cmds[i] \in {"FF", "RE", "CH"}

\* C8 as stated: when the length-mismatch error is reported no byte has been
\* written to or read from the device.
LengthCheckedBeforeAnyTraffic ==
  err.kind = "length" => (wlog = <<>> /\ rlog = <<>> /\ cmds = <<>>)

\* C8 (amended): the length check follows the synchronization and the device
\* query PR (dataman_s4_load_ram.py, which learns the length from it), or the
\* synchronization and, with --mute, ADVANCED SETUP (dms4util.py), and
\* precedes the transfer: when the length-mismatch error is reported no
\* command of the transfer (FF, RE, CH) and no byte of the image has been
\* written, and main() begins a transfer only of an image as long as the
\* target range.
LengthCheckedBeforeTransfer ==
  /\ err.kind = "length" =>
       /\ ~TransferBegun
       /\ dev.ram = {}
       /\ cmds = (IF prog = "load_ram" THEN <<"PR">>
                  ELSE IF flags.mute THEN <<"AS">> ELSE <<>>)
  /\ (driver = "main" /\ TransferBegun) =>
       /\ ImagesGiven # {}
       /\ \A d \in ImagesGiven : Len(d) = session.length
  /\ (driver = "main" /\ pc = "exit"
        /\ \E d \in ImagesGiven : Len(d) # session.length) =>
       err.kind = "length"

\* C8's case: dataman_s4_load_ram.py reported the length mismatch after it
\* had synchronized and queried the device.
LengthErrorAfterQuery ==
  /\ prog = "load_ram"
  /\ err.kind = "length"
  /\ session.live
  /\ cmds = <<"PR">>
  /\ wlog = <<CMD_PR, ESCAPE>>

(***************************************************************************)
(* C9.  The exit status.                                                   *)
(***************************************************************************)
\* The transfer completed and the device reported its checksum: result is
\* the checksum reported and data_checksum the sum of the image.
ChecksumReported ==
  /\ \E i \in 1..Len(hist) : hist[i].op \in {"get_ram_checksum", "checksum_mem"}
  /\ err.kind \in {"none", "mismatch"} \/ Last(hist).op = "emulate"

\* The sum of the image main() handed over.
ImageSum == Checksum32((CHOOSE d \in ImagesGiven : TRUE))

\* 2048 bytes FF sum to 0x0007F800; a reported 0007F800 compares equal with
\* it, a reported 0007F801 does not.
Sum2048 ==
  /\ Checksum32(Rep(255, 2048)) = <<7, 63488>>
  /\ FormatHex32(<<7, 63488>>) = <<48, 48, 48, 55, 70, 56, 48, 48>>
  /\ ~ChecksumsDiffer(Checksum32(Rep(255, 2048)),
                      ParseHex32(<<48, 48, 48, 55, 70, 56, 48, 48>>))
  /\ ChecksumsDiffer(Checksum32(Rep(255, 2048)),
                     ParseHex32(<<48, 48, 48, 55, 70, 56, 48, 49>>))

\* C9 as stated: the exit status (of a run that was not interrupted from the
\* keyboard) is 0 if and only if the transfer completed and the checksum the
\* device reported equals the sum of the image.
ExitZeroIffVerified ==
  (pc = "exit" /\ err.kind # "interrupt") =>
    (exitcode = 0 <=> (ChecksumReported /\ result = data_checksum))

\* C9 (amended): the exit status is 0 if and only if the transfer completed,
\* the checksum the device reported equals sum(image) mod 2^32 and, where
\* dms4util.py was run with --emulate, the device acknowledged EM afterwards
\* (local 0x0007F800 and reported 0x0007F800 succeed, reported 0x0007F801 is
\* a mismatch); every protocol failure and every mismatch gives a status
\* other than 0.
ExitZeroIffAllDone ==
  /\ Sum2048
  /\ pc = "exit" =>
       /\ exitcode = 0 <=>
            /\ ChecksumReported
            /\ result = data_checksum
            /\ data_checksum = ImageSum
            /\ Last(hist).op = "emulate" => err = NoErr
            /\ flags.emulate => Last(hist).op = "emulate"
       /\ err # NoErr => exitcode # 0
       /\ exitcode # -1
  /\ pc # "exit" => exitcode = -1

\* C9's case: the transfer completed and the checksums were equal, EM was
\* not acknowledged, and dms4util.py left with status 1.
VerifiedButEmulateFailed ==
  /\ pc = "exit"
  /\ ChecksumReported /\ result = data_checksum
  /\ Last(hist).op = "emulate"
  /\ err.kind = "timeout"
  /\ exitcode = 1

(***************************************************************************)
(* C10.  The device-information query.                                     *)
(***************************************************************************)
\* The parameter line r is well formed and carries the marker m.
WellFormedParms(r, m) ==
  Fits(<<13, 32>> \o Rep(HEXD, 5) \o <<45>> \o Rep(HEXD, 5) \o <<m>>
         \o Rep(HEXD, 5) \o BS17, r)

\* get_device_information has ended, having read the PRETEST line, the
\* parameter line and the answer to ESC, and nothing was written since.
QueryEnded ==
  /\ prog = "load_ram"
  /\ cmds = <<"PR">>
  /\ pc \in {"idle", "exit"}
  /\ Len(rlog) = 3
  /\ IsExpected("pr_line", loc, rlog[1])
  /\ rlog[3] = ESC_REPLY

\* The device type of the PRETEST line.
DeviceOf(line) == SubSeq(line, Len(PRETEST_HEAD) + 1, Len(line) - 2)

\* C10: when the PRETEST parameter line carries '#', get_device_information
\* raises the 'reset range' CommunicationError and no session is built (a
\* device whose range is restricted never gets one); when it carries '=' and
\* is well formed, the session has the device type of the PRETEST line and
\* the start and end of the line's two fields of five hexadecimal digits.
DeviceInformation ==
  /\ dev.restricted => ~session.live
  /\ (QueryEnded /\ WellFormedParms(rlog[2], 35)) =>
       (err.kind = "range_restricted" /\ ~session.live)
  /\ (QueryEnded /\ WellFormedParms(rlog[2], 61) /\ IsAscii(DeviceOf(rlog[1]))) =>
       /\ err.kind \in {"none", "length"}
       /\ session.live
       /\ session.device_type = DeviceOf(rlog[1])
       /\ session.start \in 0..1048575
       /\ session.end \in 0..1048575
       /\ Hex5(session.start) = SubSeq(rlog[2], 3, 7)
       /\ Hex5(session.end) = SubSeq(rlog[2], 9, 13)
       /\ session.length = session.end - session.start + 1
  /\ err.kind = "range_restricted" =>
       /\ QueryEnded
       /\ rlog[2][14] = 35
       /\ ~session.live
  /\ (prog = "load_ram" /\ session.live /\ faults = 0) =>
       /\ ~dev.restricted
       /\ session.device_type = dev.type
       /\ <<session.start, session.end>> = dev.range

\* C10's case: a device with a restricted range answered PR with '#', and
\* the constructor raised.
RangeRestrictedRaised ==
  /\ err.kind = "range_restricted"
  /\ dev.restricted
  /\ WellFormedParms(rlog[2], 35)
  /\ pc = "exit" /\ exitcode = 1

(***************************************************************************)
(* C11.  No silent retry.                                                  *)
(***************************************************************************)
\* The writes of one exchange of dataman_s4_load_ram.py, in program order:
\* __init__, get_device_information, set_file_format (committed or
\* cancelled, the ' ' keys left out), set_ram after it, get_ram_checksum,
\* for the calls made so far.
WriteScripts ==
  {<<ESCAPE, CR>>, <<CMD_PR, ESCAPE>>, <<CMD_FF, CR>>, <<CMD_FF, ESCAPE>>}
    \cup {<<CMD_RE, RangeRequest(hist[i].start, hist[i].end), CR, hist[i].data>> :
            i \in 1..Len(hist)}
    \cup {<<CMD_CH, RangeRequest(hist[i].start, hist[i].end), CR>> :
            i \in 1..Len(hist)}

IsPrefix(s, t) == Len(s) <= Len(t) /\ SubSeq(t, 1, Len(s)) = s

\* The writes of the running exchange, without set_file_format's ' ' keys.
WritesButNext ==
  IF wlog # <<>> /\ wlog[1] = CMD_FF
  THEN SelectSeq(wlog, LAMBDA m : m # SPACE)
  ELSE wlog

\* A step ends the running method (or the program) with an exception.
StepRaises == err = NoErr /\ err' # NoErr

\* C11: outside set_file_format's loop, the step at which a response fails
\* to match raises to the caller and writes nothing (no earlier write is
\* sent again, no further byte is sent); and no write of
\* dataman_s4_load_ram.py is repeated within an exchange except the ' ' of
\* set_file_format: the writes of every exchange are, in order, a first part
\* of the writes the program text lists for it.
NoSilentRetry ==
  /\ [][(StepRaises /\ pc # "ff_cand") =>
          /\ tx' = tx /\ wlog' = wlog /\ cmds' = cmds
          /\ op' = "none" /\ pc' \in {"idle", "exit"}]_vars
  /\ [](prog = "load_ram" => \E s \in WriteScripts : IsPrefix(WritesButNext, s))

\* get_ram_checksum read something else than '\r\r\n' after it started the
\* checksum, and raised: 'CH', the range and '\r' were written once each.
ChecksumAckRefused ==
  /\ prog = "load_ram" /\ pc = "exit"
  /\ err.kind = "checksum_ram"
  /\ wlog = <<CMD_CH, RangeRequest(session.start, session.end), CR>>
  /\ Len(rlog) = 4 /\ Last(rlog) # CH_ACK /\ err.bytes = Last(rlog)

(***************************************************************************)
(* C12.  The bytes an 'Unexpected ... response' error carries.             *)
(***************************************************************************)
\* The CommunicationErrors whose message is 'Unexpected <function> response'.
UnexpectedKinds == {"pretest", "fileformat", "receive", "checksum_ram"}

\* The bytes read at the step whose comparison failed: what the last read
\* returned, or the parameter line when get_device_information refused it
\* after the answer to ESC was as expected.
OffendingBytes ==
  IF err.kind = "pretest" /\ Len(rlog) = 3 /\ rlog[3] = ESC_REPLY
  THEN rlog[2]
  ELSE Last(rlog)

\* C12: every 'Unexpected ... response' CommunicationError carries exactly
\* the bytes that were read at the step whose comparison failed.
CarriesOffendingBytes ==
  err.kind \in UnexpectedKinds => err.bytes = OffendingBytes

(***************************************************************************)
(* C13.  The deadline of the checksum result.                              *)
(***************************************************************************)
\* Range sizes: one byte, two, 2 KiB, the S4's 512 KiB, the 1 MiB that five
\* hexadecimal digits address, and none.
RangeSizes == {0, 1, 2, 2048, S4_MEM_SIZE, 1048576}

\* C13: the deadline of the wait for the checksum result does not shrink as
\* the range grows: dms4util.py waits _get_checksum's timeout for the size of
\* its range (checksum_mem and checksum_device both pass self.mem_size), a
\* timeout which for sizes s1 <= s2 is no longer for s1 than for s2;
\* dataman_s4_load_ram.py waits 30 s for '\r\r\n' whatever the range.
ChecksumDeadlineMonotone ==
  /\ \A s1 \in RangeSizes, s2 \in RangeSizes :
       s1 <= s2 => GetChecksumTimeout(s1) <= GetChecksumTimeout(s2)
  /\ pc = "u_sum" => loc.deadline = GetChecksumTimeout(session.length)
  /\ pc = "ch_ack" => timeout = CHECKSUM_TIMEOUT

\* checksum_mem waits for the sum of a two-byte range: 0.5 s and 42/524288 s.
WaitingForSumOfTwo ==
  /\ pc = "u_sum" /\ session.length = 2
  /\ loc.deadline = 262144 + 42
  /\ wlog[1] = CMD_CH_LC

(***************************************************************************)
(* C14.  The deadline of the Binary Receive completion marker.             *)
(***************************************************************************)
\* The image has been written and the client waits for '\r\n>'.
AwaitingCompletion == pc \in {"re_done", "u_re_done"}

\* The deadline in force for that wait, in ms.
CompletionDeadline == IF pc = "re_done" THEN timeout ELSE loc.wait

\* The deadline the program applies to the image data.
DeadlineFor(data) ==
  IF prog = "load_ram" THEN ReceiveTimeout(data) ELSE DataToS4Wait(data)

\* C14 as stated: the deadline of the wait for the completion marker grows
\* with the image length: it is longer than the deadline the program applies
\* to any shorter image.
ReceiveDeadlineGrows ==
  AwaitingCompletion =>
    \A d \in Images : Len(d) < Len(loc.data) => DeadlineFor(d) < CompletionDeadline

\* C14 (amended): the deadline of the wait for the completion marker is the
\* same for every image length: dataman_s4_load_ram.py sets the serial
\* timeout to 80 s, dms4util.py sleeps 1.1 s and then waits the 0.5 s of its
\* _expect.
ReceiveDeadlineFixed ==
  /\ pc = "re_done" =>
       /\ timeout = RECEIVE_TIMEOUT
       /\ \A d \in Images : ReceiveTimeout(d) = timeout
  /\ pc = "u_re_done" =>
       /\ loc.wait = RECEIVE_PAUSE + EXP_TIMEOUT /\ timeout = EXP_TIMEOUT
       /\ \A d \in Images : DataToS4Wait(d) = loc.wait

\* set_ram waits 80 s for the completion marker of a three-byte image.
AwaitingCompletionOfThree ==
  /\ pc = "re_done" /\ Len(loc.data) = 3
  /\ timeout = 80000
  /\ Last(wlog) = loc.data

(***************************************************************************)
(* C15.  set_file_format is idempotent.                                    *)
(***************************************************************************)
\* The first candidate the device showed is the requested format: the
\* device's format was the requested one when the selection began.
AlreadyRequested ==
  /\ InFileFormat
  /\ Len(rlog) >= 2 /\ rlog[1] = FF_REPLY /\ rlog[2] = Requested

\* The format the device is set to.
DevFormat == dev.fmts[dev.fmt]

\* set_file_format, called by a library caller, has returned.
FileFormatReturned ==
  /\ InFileFormat /\ Last(hist).op = "set_file_format"
  /\ pc = "idle" /\ err = NoErr

\* The call before the last one selected the same format and returned.
SelectedBefore ==
  /\ Len(hist) = 2
  /\ hist[1].op \in {"set_file_format", "set_ram"}
  /\ hist[1].file_format = hist[2].file_format

\* C15: when the device's format is already the requested one, the call
\* writes 'FF' and the committing '\r' and no ' ', and the device's format
\* stays the requested one; set_file_format(f) leaves the device at its
\* prompt with format f; and called a second time in succession it
\* writes 'FF', '\r' and reads the head line, f and the prompt, ending in the
\* device state the first call ended in.
FileFormatIdempotent ==
  /\ AlreadyRequested =>
       /\ NextKeys = 0
       /\ IsPrefix(wlog, <<CMD_FF, CR>>)
       /\ DevFormat = Requested
  /\ FileFormatReturned =>
       /\ dev.mode = "prompt" /\ DevFormat = Requested
       /\ tx = <<>> /\ rx = <<>> /\ devOut = <<>>
  /\ (FileFormatReturned /\ SelectedBefore) =>
       /\ wlog = <<CMD_FF, CR>>
       /\ rlog = <<FF_REPLY, Requested, COMMIT_REPLY>>

\* set_file_format(INTEL) was called twice in succession and has returned.
SelectedTwice ==
  /\ FileFormatReturned /\ SelectedBefore
  /\ hist[1].op = "set_file_format" /\ Requested = FMT_INTEL
  /\ wlog = <<CMD_FF, CR>>

(***************************************************************************)
(* C16.  The session's address range.                                      *)
(***************************************************************************)
\* C16: once the constructor has returned, and from then on, the session's
\* end is not below its start and its length is end - start + 1 (so at
\* least 1), whatever start and end the device's parameter line showed.
SessionRangeOrdered ==
  session.live =>
    /\ session.end >= session.start
    /\ session.length = session.end - session.start + 1
    /\ session.length >= 1

(***************************************************************************)
(* C17.  The address fields written.                                       *)
(***************************************************************************)
\* set_ram or get_ram_checksum of dataman_s4_load_ram.py has written its
\* range: the write after 'RE' or 'CH'.
RangeWritten ==
  /\ prog = "load_ram"
  /\ cmds # <<>> /\ Last(cmds) \in {"RE", "CH"}
  /\ Len(wlog) >= 2

\* C17: the range set_ram or get_ram_checksum writes is two fields of
\* exactly 5 uppercase hexadecimal digits each, the start and the end, both
\* in 0..0xFFFFF and start <= end, whatever data, start and end the caller
\* passed (empty data and an image that extends past 0xFFFFF included).
AddressFieldsFiveHex ==
  RangeWritten =>
    /\ Len(wlog[2]) = 10
    /\ IsHexRun(wlog[2])
    /\ ParseHex(SubSeq(wlog[2], 1, 5)) <= ParseHex(SubSeq(wlog[2], 6, 10))

(***************************************************************************)
(* C18.  One command in flight.                                            *)
(***************************************************************************)
\* The step writes a command mnemonic.
CommandWritten == cmds' # cmds

\* The device is at its idle prompt and nothing is in flight: every write
\* has been answered and every answer has been read.
AtIdlePrompt ==
  /\ dev.mode = "prompt"
  /\ tx = <<>> /\ devOut = <<>> /\ rx = <<>>

\* An operation has returned to its caller (not the constructor's
\* synchronization alone).
ReturnedSuccessfully ==
  pc \in {"idle", "u_main"} /\ err = NoErr /\ cmds # <<>>

\* What the operation read last ends with the prompt.
PromptConsumed == rlog # <<>> /\ EndsWith(Last(rlog), PROMPT)

\* set_ram's FF exchange is complete: BINARY was shown and committed, the
\* prompt was read, and the device is set to BINARY.
BinaryCommitted ==
  /\ Last(cmds) = "FF"
  /\ Last(wlog) = CR
  /\ Len(rlog) >= 3
  /\ rlog[Len(rlog) - 1] = FMT_BINARY /\ Last(rlog) = COMMIT_REPLY
  /\ dev.fmts[dev.fmt] = FMT_BINARY

PromptSeen ==
  IF prog = "load_ram" THEN synchronized /\ sawPrompt
  ELSE rlog = <<COMMIT_REPLY>>

InRangeExchange ==
  prog = "dms4util" /\ cmds # <<>> /\ Last(cmds) \in {"RE", "CH"}

\* The ten digits of the range: mem_start's five, then mem_end's.
RangeDigits == Hex5(session.start) \o Hex5(session.end)

\* The digits written so far: the writes after the mnemonic, up to ten.
DigitsSent == Min(Len(wlog) - 1, 10)

\* Where rlog holds the echo of digit i: after the head line and the
\* placeholder, and after the comma for the digits of mem_end.
EchoIndex(i) == IF i <= 5 THEN 2 + i ELSE 3 + i

\* The echo of digit i has been read and is that digit alone.
EchoMatched(i) ==
  Len(rlog) >= EchoIndex(i) /\ rlog[EchoIndex(i)] = <<RangeDigits[i]>>

\* The comma after the fifth echo has been read.
CommaMatched == Len(rlog) >= 8 /\ rlog[8] = <<44>>

\* The backspace after the tenth echo has been read.
BackspaceMatched == Len(rlog) >= 14 /\ rlog[14] = <<8>>

\* C19: each of the ten digits is written alone and in order; digit i+1 is
\* written only after the echo of digit i was read and matched (and digit 6
\* only after the comma), so a missing or wrong echo ends the negotiation
\* with no further digit written; '\r' is written only after the ten echoes,
\* the comma and the backspace were matched; and the method goes on (to the
\* image, or to the sum) only after it read '\r' as the echo of that '\r'.
PerCharacterNegotiation ==
  InRangeExchange =>
    /\ Len(wlog) <= 13
    /\ \A i \in 1..DigitsSent : wlog[1 + i] = <<RangeDigits[i]>>
    /\ \A i \in 2..DigitsSent : EchoMatched(i - 1) /\ (i = 6 => CommaMatched)
    /\ Len(wlog) >= 12 =>
         /\ wlog[12] = CR
         /\ \A i \in 1..10 : EchoMatched(i)
         /\ CommaMatched /\ BackspaceMatched
    /\ (Len(wlog) = 13 \/ pc \in {"u_sum", "u_re_done", "u_main"}) =>
         (Len(wlog) >= 12 /\ Len(rlog) >= 15 /\ rlog[15] = CR)
    /\ (err # NoErr /\ DigitsSent \in 1..10 /\ Len(wlog) < 12) =>
         ~(EchoMatched(DigitsSent) /\ (DigitsSent = 10 => BackspaceMatched)
             /\ (DigitsSent = 5 => CommaMatched))
         \/ err.kind = "interrupt"

\* The echo of the third digit arrived altered ('E' for '0'): the wait for
\* it timed out, and three digits is all that was written.
NegotiationStoppedAtThird ==
  /\ InRangeExchange /\ Last(cmds) = "RE"
  /\ err.kind = "timeout" /\ err.bytes = <<69>>
  /\ DigitsSent = 3 /\ Len(wlog) = 4
  /\ EchoMatched(2) /\ ~EchoMatched(3)

(***************************************************************************)
(* C20.  The two negotiation styles on the wire.                           *)
(***************************************************************************)
RECURSIVE Concat(_)
\* The byte strings of a log, joined.
Concat(log) == IF log = <<>> THEN <<>> ELSE Head(log) \o Concat(Tail(log))

\* What dms4util.py's _set_start_end has written for the range so far.
DigitsWritten == Concat(SubSeq(wlog, 2, 1 + DigitsSent))

\* The reads of the range's echo that _set_start_end accepted so far: those
\* after the head line and the placeholder, the failed one left out.
EchoAccepted ==
  LET n == IF err.kind \in {"timeout", "assert"} THEN Len(rlog) - 1 ELSE Len(rlog)
  IN  Concat(SubSeq(rlog, 3, Min(n, 14)))

\* _set_start_end of dms4util.py raised while it read the range's echo.
EchoRejected ==
  /\ err.kind \in {"timeout", "assert"}
  /\ Len(rlog) \in 3..14

\* C20: for a range within 0..0xFFFFF, what dms4util.py's _set_start_end
\* writes character by character is, joined, the one write
\* f'{start:05X}{end:05X}' of dataman_s4_load_ram.py's _set_start_end; the
\* echo it accepts piece by piece is, joined, the echo
\* f'{start:05X},{end:05X}\b' the other compares as a whole; and it raises
\* only when the bytes received depart from that echo.
NegotiationsEquivalent ==
  InRangeExchange =>
    LET request == RangeRequest(session.start, session.end)
        echo    == RangeEcho(session.start, session.end)
    IN
    /\ IsPrefix(DigitsWritten, request)
    /\ IsPrefix(EchoAccepted, echo)
    /\ Len(wlog) >= 12 => (DigitsWritten = request /\ EchoAccepted = echo)
    /\ EchoRejected =>
         \/ err.bytes = <<>>
         \/ err.bytes[1] # echo[Len(EchoAccepted) + 1]

\* checksum_mem has negotiated the range ABCE0..ABCE1 and written '\r'.
RangeNegotiatedByCharacter ==
  /\ InRangeExchange /\ Last(cmds) = "CH"
  /\ session.start = 703712 /\ session.end = 703713
  /\ Len(wlog) = 12 /\ wlog[2] = <<65>> /\ wlog[11] = <<49>>
  /\ EchoAccepted = <<65, 66, 67, 69, 48, 44, 65, 66, 67, 69, 49, 8>>

(***************************************************************************)
(* C21.  Synchronization drains, then decides.                             *)
(***************************************************************************)
\* The step leaves the drain loop of dataman_s4_load_ram.py's __init__ (and
\* is not a KeyboardInterrupt).
DrainEnds == pc = "sync_read" /\ pc' # "sync_read" /\ err'.kind # "interrupt"

\* The drain loop ends only at a readline that returned nothing: a line,
\* the prompt included, does not end it; and only then is synchronized
\* looked at.
DrainThenDecide ==
  /\ [][DrainEnds => (rx = <<>> /\ rx' = <<>>)]_vars
  /\ [][DrainEnds => IF synchronized THEN pc' = "pr_write"
                     ELSE err'.kind = "sync"]_vars
  /\ [][(pc = "sync_read" /\ rx # <<>>) => pc' = "sync_read"]_vars

\* The drain loop ends: the device's output is finite.
DrainTerminates == (pc = "sync_read") ~> (pc # "sync_read")

\* The step writes 'PR', the first command.
FirstCommandWritten == pc = "pr_write" /\ pc' = "pr_line"

\* C21 as stated: a '>' does not end the drain loop, which goes on until a
\* read times out with no input and only then decides; the loop ends; and
\* when 'PR' is written no output of the device is pending: every write of
\* the synchronization has been answered and every answer has been read.
DrainLeavesNothingPending ==
  /\ DrainThenDecide
  /\ DrainTerminates
  /\ [][FirstCommandWritten => (tx = <<>> /\ devOut = <<>> /\ rx = <<>>)]_vars

\* C21 (amended): a '>' does not end the drain loop, which goes on until a
\* read times out with no input and only then decides; the loop ends; the
\* bytes that had arrived by that last read have all been read, while what
\* the device sends later than that (the answer to '\r', if it is later
\* than one timeout) is unread when 'PR' is written.
DrainThenConfirm ==
  /\ DrainThenDecide
  /\ DrainTerminates

\* The prompt has been read as a line and the loop goes on: the answer to
\* '\r' has arrived and is read next.
DrainingPastPrompt ==
  /\ pc = "sync_read" /\ synchronized /\ sawPrompt
  /\ rx = COMMIT_REPLY /\ tx = <<>> /\ devOut = <<>>

(***************************************************************************)
(* C22.  ADVANCED SETUP.                                                   *)
(***************************************************************************)
\* dms4util.py is in (or has ended in) the exchange of 'as'.
InAdvancedSetup == prog = "dms4util" /\ cmds # <<>> /\ Last(cmds) = "AS"

\* With mute, 0 is requested for High Tone, Low Tone and Busy Tone (the
\* second, third and fourth byte) and nothing for the others (-1).
MuteRequest(i) == IF i \in {2, 3, 4} THEN 0 ELSE -1

\* line shows byte i: '\r\n', its name, two hexadecimal digits, '\b\b'.
ShowsByte(i, line) ==
  /\ Len(line) = 21
  /\ SubSeq(line, 1, 17) = CRLF \o NamedBytes[i]
  /\ IsHexDigit(line[18]) /\ IsHexDigit(line[19])
  /\ SubSeq(line, 20, 21) = <<8, 8>>

\* The value that line shows.
ShownValue(line) == 16 * HexVal(line[18]) + HexVal(line[19])

\* The key that leaves byte i: ESC for the tenth, '\r' for the others.
LeavesByte(i) == IF i = 10 THEN ESCAPE ELSE CR

RECURSIVE SetupWalk(_, _, _)
\* The reads r and the writes w are those of advanced_setup from byte i on:
\* for each byte its line, then (only if a value is requested and is not the
\* one shown) the value written and its echo, then the key that leaves the
\* byte; after the tenth the prompt.
SetupWalk(i, r, w) ==
  IF i = 11 THEN (r = <<>> \/ r = <<COMMIT_REPLY>>) /\ w = <<>>
  ELSE IF r = <<>> THEN w = <<>>
  ELSE /\ ShowsByte(i, r[1])
       /\ w # <<>>
       /\ IF MuteRequest(i) # -1 /\ MuteRequest(i) # ShownValue(r[1])
          THEN /\ w[1] = <<HexChar(MuteRequest(i) \div 16), HexChar(MuteRequest(i) % 16)>>
               /\ IF Len(r) = 1 THEN Len(w) = 1
                  ELSE /\ r[2] = w[1] \o <<8>>
                       /\ Len(w) >= 2 /\ w[2] = LeavesByte(i)
                       /\ SetupWalk(i + 1, SubSeq(r, 3, Len(r)), SubSeq(w, 3, Len(w)))
          ELSE /\ w[1] = LeavesByte(i)
               /\ SetupWalk(i + 1, Tail(r), Tail(w))

\* The reads of the exchange that _expect accepted, after the head line.
SetupReads ==
  LET n == IF err.kind \in {"timeout", "assert"} THEN Len(rlog) - 1 ELSE Len(rlog)
  IN  SubSeq(rlog, 2, n)

\* C22: advanced_setup(mute=True) takes the ten named bytes in their fixed
\* order; for each it reads the line with the current value, writes the
\* value 0 and reads its echo only for High Tone, Low Tone and Busy Tone and
\* only when the current value is not 0, then writes '\r', or ESC after the
\* tenth byte; the device's other seven bytes keep their values, and when
\* the method has returned the three tones are 0.
AdvancedSetupWalk ==
  InAdvancedSetup =>
    /\ Len(rlog) >= 1 => SetupWalk(1, SetupReads, Tail(wlog))
    /\ rlog = <<>> => wlog = <<CMD_AS>>
    /\ dev.params # <<>> =>
         \A i \in (1..10) \ {2, 3, 4} : dev.params[i] = 16
    /\ (pc = "u_main" /\ err = NoErr) =>
         /\ \A i \in {2, 3, 4} : dev.params[i] = 0
         /\ Last(rlog) = COMMIT_REPLY /\ Last(wlog) = ESCAPE

\* advanced_setup has returned: High Tone was 0 already, Low Tone (AC) was
\* set to 0, Busy Tone was 0 already; eleven keys and one value were written.
OnlyLowToneWritten ==
  /\ InAdvancedSetup /\ pc = "u_main" /\ err = NoErr
  /\ dev.params = <<16, 0, 0, 0, 16, 16, 16, 16, 16, 16>>
  /\ Len(wlog) = 12 /\ wlog[4] = <<48, 48>>
  /\ ShownValue(rlog[4]) = 172
  /\ Len(rlog) = 13

(***************************************************************************)
(* C23.  A candidate of set_file_format that is no format token.           *)
(***************************************************************************)
\* set_file_format reads a candidate at this step; it is Last(rlog').
CandidateRead == pc = "ff_cand" /\ Len(rlog') = Len(rlog) + 1

\* C23: whenever set_file_format reads a candidate that is not one of the
\* five 9-byte format tokens (other bytes, bytes outside ASCII, or a short or
\* empty read), the one thing it writes for that candidate is ESC and it
\* raises the CommunicationError 'Unexpected FILE FORMAT response'.
UnknownCandidateCancelled ==
  [][(CandidateRead /\ Last(rlog') \notin AllFileFormats) =>
       /\ wlog' = Append(wlog, ESCAPE)
       /\ err'.kind = "fileformat"]_vars
=============================================================================
